---- MODULE Spec2Model ----
(***************************************************************************)
(* Model of the Trisonica data logger (src/datalogger_pi.py): the run      *)
(* loop of TrisonicaDataLoggerPi with device search, probing, connection,  *)
(* the line pipeline (parse, schema, record row, counters, statistics),   *)
(* the periodic and the signal-triggered statistics snapshot and cleanup.  *)
(*                                                                         *)
(* Text is a sequence of one-character strings.  Numbers are fixed point,  *)
(* in hundredths (the value 1.5 is 150).  The main flow advances one       *)
(* statement or one method call of run()/read_serial_data() per step; the  *)
(* signal handler runs between any two such steps.                         *)
(***************************************************************************)
EXTENDS Integers, Sequences, FiniteSets, TLC

VARIABLES
    variant,              \* the program: "pi" (datalogger_pi.py) or "simple" (datalogger_simple.py)
    wait_for_device,      \* Config.wait_for_device
    save_statistics,      \* Config.save_statistics
    feed,                 \* environment: the lines the device can send
    readLimit,            \* environment: non-empty lines the device sends in this run
    signalLimit,          \* environment: stop signals delivered in this run
    errorLimit,           \* environment: failed reads that are counted in this run
    faultBudget,          \* environment: sink/driver failures still allowed
    faults,               \* the failures that happened, by kind
    signals,              \* environment: stop signals delivered so far
    reads,                \* non-empty lines read so far; the logical time
    readErrors,           \* logical times of the reads that raised, the first errorLimit of them
    running,              \* self.running
    pc,                   \* position of the main flow
    exitStatus,           \* process exit status, -1 while it runs
    ports,                \* candidate paths found by the last enumeration
    portIdx,              \* index of the candidate being probed
    port,                 \* path handed to connect_serial
    probeOpen,            \* the probe handle `ser` is open
    probeCount,           \* lines read from the probe handle so far
    detected,             \* trisonica_detected
    probeLine,            \* the line last read from the probe handle (stripped)
    serial_open,          \* self.serial_port is set and is_open
    linkFailed,           \* the device behind self.serial_port is gone
    opens,                \* persistent sessions opened so far
    log_open,             \* self.log_file is open
    stats_open,           \* self.stats_file is open
    filesCreated,         \* output files created so far
    log,                  \* content of the record file, one entry per line
    statsLog,             \* snapshots appended to the statistics file
    csv_columns,          \* self.csv_columns
    csv_headers_written,  \* self.csv_headers_written
    line,                 \* line being processed (stripped)
    timestamp,            \* its timestamp
    parsed,               \* its field map (ordered)
    keyIdx,               \* index of the field being classified
    value,                \* float(value_str) of that field
    point_count,          \* self.point_count
    data_points,          \* self.data_points
    total_readings,       \* data_quality['total_readings']
    error_count,          \* data_quality['error_count']
    parameter_errors,     \* data_quality['parameter_errors']
    sensor_health,        \* data_quality['sensor_health']
    stats,                \* self.stats
    fed,                  \* unit run: the values given to calculate_statistics so far
    steady,               \* unit run: the value every later call is given
    pieces                \* unit run: what the line given to parse_data_line is made of

unitVars == << fed, steady, pieces >>
cfgVars == << variant, wait_for_device, save_statistics, feed, readLimit, signalLimit,
             errorLimit >>
envVars == << faultBudget, faults, signals, reads, readErrors >>
searchVars == << ports, portIdx, port, probeOpen, probeCount, detected, probeLine >>
devVars == << serial_open, linkFailed, opens >>
fileVars == << log_open, stats_open, filesCreated >>
outVars == << log, statsLog >>
schemaVars == << csv_columns, csv_headers_written >>
lineVars == << line, timestamp, parsed, keyIdx, value >>
dataVars == << point_count, data_points, total_readings, error_count,
               parameter_errors, sensor_health, stats >>

vars == << unitVars, cfgVars, envVars, running, pc, exitStatus, searchVars, devVars,
           fileVars, outVars, schemaVars, lineVars, dataVars >>

-----------------------------------------------------------------------------
(* Bounds of the model *)

MaxReads == 2        \* non-empty lines the device sends in a short run
LongReads == 201     \* non-empty lines the device sends in a long run
MaxSignals == 1      \* stop signals delivered in a short run
LongSignals == 1     \* stop signals delivered in a long run
RepeatSignals == 2   \* stop signals delivered in a run where the signal is repeated
MaxFaults == 1       \* sink/driver failures in one run (faulty environment)
MaxPorts == 2        \* candidate device paths that can exist
MaxReadErrors == 1   \* failed reads recorded in a run that records them
FreeUpdates == 2     \* unit run: calls of calculate_statistics with a freely chosen value
MaxUpdates == 103    \* unit run: calls of calculate_statistics in all
MaxPieces == 3       \* unit run: segments of the line given to parse_data_line

(* Program constants *)

SnapshotEvery == 100      \* run: point_count % 100
WindowSize == 100         \* Statistics.values maxlen
ProbeLines == 10          \* wait_for_trisonica: range(10)
MAX_DATAPOINTS == 10000   \* capacity of self.data_points
SentinelError == 0 - 9900 \* read_serial_data: value <= -99.0
MalfunctionAbove == 10000000 \* update_sensor_health: value > 100000
OfflineValue == 0 - 9970  \* update_sensor_health: value == -99.70

-----------------------------------------------------------------------------
(* Text helpers (str.strip, str.split) *)

\* str.strip and str.split() take a tab for whitespace as well
IsSpace(c) == c \in { " ", "\t" }

RECURSIVE LStrip(_)
LStrip(s) == IF s # << >> /\ IsSpace(Head(s)) THEN LStrip(Tail(s)) ELSE s

RECURSIVE RStrip(_)
RStrip(s) ==
    IF s # << >> /\ IsSpace(s[Len(s)]) THEN RStrip(SubSeq(s, 1, Len(s) - 1)) ELSE s

Strip(s) == RStrip(LStrip(s))

Contains(s, c) == \E i \in 1..Len(s) : s[i] = c

\* index of the first occurrence of c in s, 0 when absent
RECURSIVE IndexOf(_, _, _)
IndexOf(s, c, i) ==
    IF i > Len(s) THEN 0 ELSE IF s[i] = c THEN i ELSE IndexOf(s, c, i + 1)

\* s.split(sep): every segment, empty ones included
RECURSIVE SplitOn(_, _)
SplitOn(s, sep) ==
    LET i == IndexOf(s, sep, 1)
    IN  IF i = 0 THEN << s >>
        ELSE << SubSeq(s, 1, i - 1) >> \o SplitOn(SubSeq(s, i + 1, Len(s)), sep)

\* s.split(): tokens between runs of whitespace, no empty token
RECURSIVE SplitWS(_)
SplitWS(s) ==
    LET t == LStrip(s)
        at == { j \in 1..Len(t) : IsSpace(t[j]) }
        i == IF at = { } THEN 0 ELSE CHOOSE j \in at : \A h \in at : j <= h
    IN  IF t = << >> THEN << >>
        ELSE IF i = 0 THEN << t >>
        ELSE << SubSeq(t, 1, i - 1) >> \o SplitWS(SubSeq(t, i + 1, Len(t)))

-----------------------------------------------------------------------------
(* Ordered field map (dict): a sequence of [k, v] with distinct keys *)

Keys(d) == [i \in 1..Len(d) |-> d[i].k]
KeySet(d) == {d[i].k : i \in 1..Len(d)}
HasKey(d, k) == \E i \in 1..Len(d) : d[i].k = k
Get(d, k, dflt) ==
    IF HasKey(d, k) THEN d[CHOOSE i \in 1..Len(d) : d[i].k = k].v ELSE dflt

\* d[k] = v: overwrite in place, or append a new key
DictSet(d, k, v) ==
    IF HasKey(d, k)
    THEN [i \in 1..Len(d) |-> IF d[i].k = k THEN [k |-> k, v |-> v] ELSE d[i]]
    ELSE Append(d, [k |-> k, v |-> v])

-----------------------------------------------------------------------------
(* parse_data_line *)

\* variant: a repeated key keeps its first value
RECURSIVE ParsePairs_FirstWins(_, _)
ParsePairs_FirstWins(pairs, d) ==
    IF pairs = << >> THEN d
    ELSE LET pair == Strip(Head(pairs))
             i == IndexOf(pair, " ", 1)
             key == Strip(SubSeq(pair, 1, i - 1))
         IN  IF i = 0 \/ HasKey(d, key) THEN ParsePairs_FirstWins(Tail(pairs), d)
             ELSE ParsePairs_FirstWins(Tail(pairs),
                      DictSet(d, key, Strip(SubSeq(pair, i + 1, Len(pair)))))

\* comma mode, one pair at a time
RECURSIVE ParsePairs(_, _)
ParsePairs(pairs, d) ==
    IF pairs = << >> THEN d
    ELSE LET pair == Strip(Head(pairs))
             i == IndexOf(pair, " ", 1)
         IN  IF i = 0 THEN ParsePairs(Tail(pairs), d)
             ELSE ParsePairs(Tail(pairs),
                             DictSet(d, Strip(SubSeq(pair, 1, i - 1)),
                                        Strip(SubSeq(pair, i + 1, Len(pair)))))

\* variant: every token is paired with the one after it
RECURSIVE ParseTokens_Sliding(_, _, _)
ParseTokens_Sliding(parts, i, d) ==
    IF i + 1 > Len(parts) THEN d
    ELSE ParseTokens_Sliding(parts, i + 1, DictSet(d, parts[i], parts[i + 1]))

\* whitespace mode: for i in range(0, len(parts)-1, 2)
RECURSIVE ParseTokens(_, _, _)
ParseTokens(parts, i, d) ==
    IF i + 1 > Len(parts) THEN d
    ELSE ParseTokens(parts, i + 2, DictSet(d, parts[i], parts[i + 1]))

parse_data_line(l) ==
    IF Contains(l, ",")
    THEN ParsePairs(SplitOn(Strip(l), ","), << >>)
    ELSE ParseTokens(SplitWS(Strip(l)), 1, << >>)

-----------------------------------------------------------------------------
(* float(value_str), restricted to [sign] digits [. digits], in hundredths *)

Digits == << "0", "1", "2", "3", "4", "5", "6", "7", "8", "9" >>
IsDigit(c) == \E i \in 1..10 : Digits[i] = c
DigitVal(c) == (CHOOSE i \in 1..10 : Digits[i] = c) - 1

RECURSIVE NatVal(_, _)
NatVal(s, acc) == IF s = << >> THEN acc ELSE NatVal(Tail(s), 10 * acc + DigitVal(Head(s)))

AllDigits(s) == \A i \in 1..Len(s) : IsDigit(s[i])

\* the first two fraction digits, as hundredths
FracVal(f) ==
    (IF Len(f) >= 1 THEN 10 * DigitVal(f[1]) ELSE 0) + (IF Len(f) >= 2 THEN DigitVal(f[2]) ELSE 0)

Unsigned(s) ==
    LET dot == IndexOf(s, ".", 1)
        ip == IF dot = 0 THEN s ELSE SubSeq(s, 1, dot - 1)
        fp == IF dot = 0 THEN << >> ELSE SubSeq(s, dot + 1, Len(s))
    IN  IF AllDigits(ip) /\ AllDigits(fp) /\ Len(ip) + Len(fp) > 0
        THEN [ok |-> TRUE, val |-> 100 * NatVal(ip, 0) + FracVal(fp)]
        ELSE [ok |-> FALSE, val |-> 0]

\* ok = FALSE stands for ValueError
ToFloat(s) ==
    LET t == Strip(s)
        neg == t # << >> /\ Head(t) = "-"
        body == IF t # << >> /\ Head(t) \in {"-", "+"} THEN Tail(t) ELSE t
        u == Unsigned(body)
    IN  IF u.ok THEN [ok |-> TRUE, val |-> IF neg THEN 0 - u.val ELSE u.val] ELSE u

-----------------------------------------------------------------------------
(* Statistics and calculate_statistics *)

Min2(a, b) == IF a <= b THEN a ELSE b
Max2(a, b) == IF a >= b THEN a ELSE b

RECURSIVE SumSeq(_)
SumSeq(s) == IF s = << >> THEN 0 ELSE Head(s) + SumSeq(Tail(s))

RECURSIVE SumSq(_)
SumSq(s) == IF s = << >> THEN 0 ELSE Head(s) * Head(s) + SumSq(Tail(s))

\* std_dev is kept as the samples it is the population standard deviation of
\* (none for 0.0): the squares of large readings exceed the integers of the
\* checker, so the variance is evaluated where it is looked at
StdDevOver(w) == [over |-> w]

\* sum((x - mean)^2) / n  =  (n * sum(x^2) - sum(x)^2) / n^2, as [num, den]
Variance(sd) ==
    LET n == Len(sd.over)
    IN  IF n = 0 THEN [num |-> 0, den |-> 1]
        ELSE [num |-> n * SumSq(sd.over) - SumSeq(sd.over) * SumSeq(sd.over),
              den |-> n * n]

\* the dataclass defaults; a rational is [num, den]
Statistics ==
    [min_val |-> 0, max_val |-> 0, mean_val |-> [num |-> 0, den |-> 1],
     current_val |-> 0, std_dev |-> StdDevOver(<< >>), count |-> 0,
     values |-> << >>]

\* deque(maxlen=100).append
WindowAppend(w, v) ==
    IF Len(w) >= WindowSize THEN Append(Tail(w), v) ELSE Append(w, v)

\* variant: the extrema are those of the window
calculate_statistics_Windowed(st, key, v) ==
    LET old == IF key \in DOMAIN st THEN st[key] ELSE Statistics
        w == WindowAppend(old.values, v)
        n == Len(w)
        new == [old EXCEPT !.current_val = v, !.count = old.count + 1, !.values = w,
                           !.min_val = CHOOSE x \in { w[i] : i \in 1..n } :
                                           \A i \in 1..n : x <= w[i],
                           !.max_val = CHOOSE x \in { w[i] : i \in 1..n } :
                                           \A i \in 1..n : x >= w[i],
                           !.mean_val = [num |-> SumSeq(w), den |-> n],
                           !.std_dev = IF n > 1 THEN StdDevOver(w)
                                       ELSE StdDevOver(<< >>)]
    IN  [k \in DOMAIN st \cup {key} |-> IF k = key THEN new ELSE st[k]]

\* self.calculate_statistics(key, value)
calculate_statistics(st, key, v) ==
    LET old == IF key \in DOMAIN st THEN st[key] ELSE Statistics
        w == WindowAppend(old.values, v)
        n == Len(w)
        cnt == old.count + 1
        new ==
            IF cnt = 1
            THEN [old EXCEPT !.current_val = v, !.count = cnt, !.values = w,
                             !.min_val = v, !.max_val = v,
                             !.mean_val = [num |-> v, den |-> 1],
                             !.std_dev = StdDevOver(<< >>)]
            ELSE [old EXCEPT !.current_val = v, !.count = cnt, !.values = w,
                             !.min_val = Min2(old.min_val, v),
                             !.max_val = Max2(old.max_val, v),
                             !.mean_val = [num |-> SumSeq(w), den |-> n],
                             !.std_dev =
                                 IF n > 1 THEN StdDevOver(w) ELSE old.std_dev]
    IN  [k \in DOMAIN st \cup {key} |-> IF k = key THEN new ELSE st[k]]

\* TrisonicaLogger.calculate_statistics: no standard deviation
calculate_statistics_simple(st, key, v) ==
    LET old == IF key \in DOMAIN st THEN st[key] ELSE Statistics
        w == WindowAppend(old.values, v)
        cnt == old.count + 1
        new ==
            IF cnt = 1
            THEN [old EXCEPT !.current_val = v, !.count = cnt, !.values = w,
                             !.min_val = v, !.max_val = v,
                             !.mean_val = [num |-> v, den |-> 1]]
            ELSE [old EXCEPT !.current_val = v, !.count = cnt, !.values = w,
                             !.min_val = Min2(old.min_val, v),
                             !.max_val = Max2(old.max_val, v),
                             !.mean_val = [num |-> SumSeq(w), den |-> Len(w)]]
    IN  [k \in DOMAIN st \cup {key} |-> IF k = key THEN new ELSE st[k]]

-----------------------------------------------------------------------------
(* Sensor health and update_sensor_health *)

UnknownHealth == [status |-> "Unknown", error_rate |-> [num |-> 0, den |-> 1],
                  last_good_reading |-> 0]

InitialParameters ==
    { <<"S">>, <<"S", "2">>, <<"D">>, <<"T">>, <<"H">>, <<"P">>, <<"U">>, <<"V">>, <<"W">> }

\* the status a non-error reading gets
GoodStatus(parameter, v) ==
    IF parameter # << >> /\ Head(parameter) = "T" /\ v > MalfunctionAbove THEN "Malfunction"
    ELSE IF parameter = <<"P">> /\ v = OfflineValue THEN "Offline"
    ELSE "Good"

\* variant: the rate is refreshed by erroneous readings only
update_sensor_health_RateOnError(sh, parameter, v, is_error, errs, total, now) ==
    LET old == IF parameter \in DOMAIN sh THEN sh[parameter] ELSE UnknownHealth
        s1 == IF is_error
              THEN [old EXCEPT !.status = "Error"]
              ELSE [old EXCEPT !.last_good_reading = now,
                               !.status = GoodStatus(parameter, v)]
        s2 == IF total > 0 /\ is_error
              THEN [s1 EXCEPT !.error_rate = [num |-> errs * 100, den |-> total]]
              ELSE s1
    IN  [k \in DOMAIN sh \cup {parameter} |-> IF k = parameter THEN s2 ELSE sh[k]]

\* variant: an Error status stays until the engine restarts
update_sensor_health_Sticky(sh, parameter, v, is_error, errs, total, now) ==
    LET old == IF parameter \in DOMAIN sh THEN sh[parameter] ELSE UnknownHealth
        s1 == IF is_error \/ old.status = "Error"
              THEN [old EXCEPT !.status = "Error"]
              ELSE [old EXCEPT !.last_good_reading = now,
                               !.status = GoodStatus(parameter, v)]
        s2 == IF total > 0
              THEN [s1 EXCEPT !.error_rate = [num |-> errs * 100, den |-> total]]
              ELSE s1
    IN  [k \in DOMAIN sh \cup {parameter} |-> IF k = parameter THEN s2 ELSE sh[k]]

\* the health map after update_sensor_health; errs is error_count after the call
update_sensor_health(sh, parameter, v, is_error, errs, total, now) ==
    LET old == IF parameter \in DOMAIN sh THEN sh[parameter] ELSE UnknownHealth
        s1 == IF is_error
              THEN [old EXCEPT !.status = "Error"]
              ELSE [old EXCEPT !.last_good_reading = now,
                               !.status = GoodStatus(parameter, v)]
        s2 == IF total > 0
              THEN [s1 EXCEPT !.error_rate = [num |-> errs * 100, den |-> total]]
              ELSE s1
    IN  [k \in DOMAIN sh \cup {parameter} |-> IF k = parameter THEN s2 ELSE sh[k]]

-----------------------------------------------------------------------------
(* Output rendering: update_csv_columns, write_csv_row, save_final_statistics *)

TimestampColumn == << "timestamp" >>

\* variant: every key of the line is appended, known or not
AddColumns_Again(cols, ks) == cols \o ks

\* the loop of lines 285-287
RECURSIVE AddColumns(_, _)
AddColumns(cols, ks) ==
    IF ks = << >> THEN cols
    ELSE AddColumns(IF \E i \in 1..Len(cols) : cols[i] = Head(ks)
                    THEN cols ELSE Append(cols, Head(ks)),
                    Tail(ks))

\* one cell per current column; the timestamp cell is the logical time
RowValues(cols, ts, d) ==
    [i \in 1..Len(cols) |->
        IF cols[i] = TimestampColumn THEN << ts >> ELSE Get(d, cols[i], << >>)]

HeaderEntry(cols) == [kind |-> "header", cells |-> cols]
RowEntry(cols, ts, d) == [kind |-> "row", cells |-> RowValues(cols, ts, d)]

\* variant: a snapshot that lists only the parameters that have statistics
SnapshotParameters_StatsOnly(st, pe) == DOMAIN st

\* the rows one snapshot writes, by parameter
SnapshotParameters(st, pe) == DOMAIN st \cup DOMAIN pe

SnapshotRow(st, pe, key) ==
    LET has == key \in DOMAIN st
        good == IF has THEN st[key].count ELSE 0
        inpe == key \in DOMAIN pe
        ec == IF inpe THEN pe[key].error_count ELSE 0
        tr == IF inpe THEN pe[key].total_count ELSE good
    IN  [min |-> IF has THEN st[key].min_val ELSE 0,
         max |-> IF has THEN st[key].max_val ELSE 0,
         mean |-> IF has THEN st[key].mean_val ELSE [num |-> 0, den |-> 1],
         std_dev |-> IF has THEN st[key].std_dev ELSE StdDevOver(<< >>),
         count |-> good,
         error_count |-> ec,
         error_rate |-> IF inpe /\ tr > 0 THEN [num |-> ec * 100, den |-> tr]
                        ELSE [num |-> 0, den |-> 1],
         total_readings |-> tr]

save_final_statistics(st, pe) ==
    [key \in SnapshotParameters(st, pe) |-> SnapshotRow(st, pe, key)]

\* TrisonicaLogger.save_final_statistics: no std_dev and no error rate column
SnapshotRow_simple(st, pe, key) ==
    LET r == SnapshotRow(st, pe, key)
    IN  [min |-> r.min, max |-> r.max, mean |-> r.mean, count |-> r.count,
         error_count |-> r.error_count, total_readings |-> r.total_readings]

save_final_statistics_simple(st, pe) ==
    [key \in SnapshotParameters(st, pe) |-> SnapshotRow_simple(st, pe, key)]

-----------------------------------------------------------------------------
(* The environment *)

LineGood == << "S", " ", "1", ",", "T", " ", "2" >>      \* "S 1,T 2"
LineMalformed == << "x" >>                               \* "x": no field
LineMixed == << "S", " ", "-", "9", "9", ",", "P", " ", "x" >>   \* "S -99,P x"
LineLong == << "S", " ", "-", "9", "9", ",", "T", " ", "1", ",", "P", " ", "x" >>
                                                         \* "S -99,T 1,P x"
LineHealthy ==                                           \* "S 100,T 100001,P -99.70"
    << "S", " ", "1", "0", "0", ",", "T", " ", "1", "0", "0", "0", "0", "1", ",", "P", " ", "-", "9", "9", ".", "7", "0" >>
LineCold == << "T", " ", "-", "1", ",", "P", " ", "5" >>   \* "T -1,P 5"
EmptyLine == << >>                                       \* read timeout, blank line

FeedShort == { LineGood, LineMalformed, LineMixed }
FeedLong == { LineLong }
FeedHealth == { LineHealthy, LineLong, LineCold }

\* find_serial_ports: sorted(set(...)) of the paths that exist right now
find_serial_ports ==
    { << >> } \cup { << i >> : i \in 1..MaxPorts }
              \cup { << i, j >> : i \in 1..MaxPorts, j \in 1..MaxPorts }
SortedPorts == { ps \in find_serial_ports : \A i \in 1..Len(ps) - 1 : ps[i] < ps[i + 1] }

-----------------------------------------------------------------------------
(* The state after __init__ *)

InitAt(at, v, lines, limit, sigs, budget, errs) ==
    /\ variant = v
    /\ wait_for_device \in BOOLEAN
    /\ save_statistics \in BOOLEAN
    /\ feed = lines
    /\ readLimit = limit
    /\ signalLimit = sigs
    /\ errorLimit = errs
    /\ faultBudget = budget
    /\ faults = { }
    /\ signals = 0
    /\ reads = 0
    /\ readErrors = << >>
    /\ running = FALSE
    /\ pc = at
    /\ exitStatus = -1
    /\ ports = << >>
    /\ portIdx = 0
    /\ port = 0
    /\ probeOpen = FALSE
    /\ probeCount = 0
    /\ detected = FALSE
    /\ probeLine = << >>
    /\ serial_open = FALSE
    /\ linkFailed = FALSE
    /\ opens = 0
    /\ log_open = TRUE
    /\ stats_open = save_statistics
    /\ filesCreated = IF save_statistics THEN 2 ELSE 1
    /\ log = << >>
    /\ statsLog = << >>
    /\ csv_columns = << TimestampColumn >>
    /\ csv_headers_written = FALSE
    /\ line = << >>
    /\ timestamp = 0
    /\ parsed = << >>
    /\ keyIdx = 0
    /\ value = 0
    /\ point_count = 0
    /\ data_points = << >>
    /\ total_readings = 0
    /\ error_count = 0
    /\ parameter_errors = << >>
    /\ sensor_health = [p \in IF v = "pi" THEN InitialParameters ELSE { } |-> UnknownHealth]
    /\ stats = << >>

\* the logger v about to enter run()
InitFor(v, lines, limit, sigs, budget, errs) ==
    /\ InitAt("start", v, lines, limit, sigs, budget, errs)
    /\ fed = << >>
    /\ steady = 0
    /\ pieces = << >>

\* the state after TrisonicaDataLoggerPi.__init__
InitOf(lines, limit, sigs, budget, errs) == InitFor("pi", lines, limit, sigs, budget, errs)

\* a run in which failed reads are not recorded
InitWith(lines, limit, sigs, budget) == InitOf(lines, limit, sigs, budget, 0)

\* short run, output sinks and driver never fail
Init == InitWith(FeedShort, MaxReads, MaxSignals, 0)
\* short run, sinks and driver can fail
InitFaulty == InitWith(FeedShort, MaxReads, MaxSignals, MaxFaults)
\* long run of one repeated line, sinks and driver never fail
InitLong == InitWith(FeedLong, LongReads, LongSignals, 0)
\* short run of lines with sentinel, out-of-range and non-numeric values
InitHealth == InitWith(FeedHealth, MaxReads, MaxSignals, 0)
\* the same run of TrisonicaLogger, the logger of datalogger_simple.py
InitSimple == InitFor("simple", FeedHealth, MaxReads, MaxSignals, 0, 0)
\* short run that records the reads that failed, sinks never fail
InitSession == InitOf(FeedShort, MaxReads, MaxSignals, 0, MaxReadErrors)
\* short run in which the stop signal can be delivered again, sinks never fail
InitRepeat == InitWith(FeedShort, MaxReads, RepeatSignals, 0)

-----------------------------------------------------------------------------
(* run(): loop heads, search and connection *)

\* run, line 451
RunStart ==
    /\ pc = "start"
    /\ running' = TRUE
    /\ pc' = "run_top"
    /\ UNCHANGED << unitVars, cfgVars, envVars, exitStatus, searchVars, devVars, fileVars,
                    outVars, schemaVars, lineVars, dataVars >>

\* run, lines 453-455 and 513: the outer loop head
RunLoopHead ==
    /\ pc = "run_top"
    /\ pc' = IF ~running THEN "cl_serial"
             ELSE IF wait_for_device THEN "wft_top" ELSE "find_ports"
    /\ UNCHANGED << unitVars, cfgVars, envVars, running, exitStatus, searchVars, devVars,
                    fileVars, outVars, schemaVars, lineVars, dataVars >>

\* variant: the search loop does not look at self.running
WaitEnumerate_IgnoresStop ==
    /\ pc = "wft_top"
    /\ \E found \in SortedPorts :
          /\ ports' = found
          /\ portIdx' = IF found = << >> THEN 0 ELSE 1
          /\ pc' = IF found = << >> THEN "wft_sleep" ELSE "probe_open"
          /\ UNCHANGED << port, probeOpen, probeCount, detected, probeLine >>
    /\ UNCHANGED << unitVars, cfgVars, envVars, running, exitStatus, devVars, fileVars,
                    outVars, schemaVars, lineVars, dataVars >>

\* wait_for_trisonica, lines 180-186 (and run 457-458 when it returns None)
WaitEnumerate ==
    /\ pc = "wft_top"
    /\ IF ~running
       THEN /\ pc' = "cl_serial"
            /\ ports' = << >>
            /\ portIdx' = 0
            /\ probeCount' = 0
            /\ detected' = FALSE
            /\ UNCHANGED << port, probeOpen, probeLine >>
       ELSE \E found \in SortedPorts :
                /\ ports' = found
                /\ portIdx' = IF found = << >> THEN 0 ELSE 1
                /\ pc' = IF found = << >> THEN "wft_sleep" ELSE "probe_open"
                /\ UNCHANGED << port, probeOpen, probeCount, detected, probeLine >>
    /\ UNCHANGED << unitVars, cfgVars, envVars, running, exitStatus, devVars, fileVars,
                    outVars, schemaVars, lineVars, dataVars >>

\* wait_for_trisonica, lines 185 and 217: time.sleep(DEVICE_CHECK_INTERVAL)
WaitSleep ==
    /\ pc = "wft_sleep"
    /\ pc' = "wft_top"
    /\ UNCHANGED << unitVars, cfgVars, envVars, running, exitStatus, searchVars, devVars,
                    fileVars, outVars, schemaVars, lineVars, dataVars >>

\* where the probe loop goes after the candidate at portIdx
AfterCandidate == IF portIdx < Len(ports) THEN "probe_open" ELSE "wft_sleep"
NextCandidate == IF portIdx < Len(ports) THEN portIdx + 1 ELSE portIdx

\* wait_for_trisonica, lines 190-195 (213-214 when the open fails)
ProbeOpen ==
    /\ pc = "probe_open"
    /\ \/ /\ probeOpen' = TRUE
          /\ probeCount' = 0
          /\ detected' = FALSE
          /\ pc' = "probe_read"
          /\ UNCHANGED << portIdx, probeLine >>
       \/ /\ pc' = AfterCandidate
          /\ portIdx' = NextCandidate
          /\ UNCHANGED << probeOpen, probeCount, detected, probeLine >>
    /\ UNCHANGED << ports, port >>
    /\ UNCHANGED << unitVars, cfgVars, envVars, running, exitStatus, devVars, fileVars,
                    outVars, schemaVars, lineVars, dataVars >>

\* the lines a candidate can send while it is probed
ProbeFeed == { LineGood, EmptyLine, << "P", " ", "5" >>, << "S", "2", " ", "5" >> }

\* variant: any line that is not empty is taken for the device's
HasToken_AnyLine(l) == l # << >>

\* line 199: line and any(param in line for param in ['S ', 'S2', 'D ', 'T ', 'U ', 'V ']);
\* TrisonicaLogger (line 248) has no 'S2'
HasToken(l) ==
    /\ l # << >>
    /\ \E t \in { << "S", " " >>, << "D", " " >>, << "T", " " >>, << "U", " " >>,
                   << "V", " " >> } \cup IF variant = "pi" THEN { << "S", "2" >> } ELSE { } :
          \E i \in 1..(Len(l) - 1) : SubSeq(l, i, i + 1) = t

\* wait_for_trisonica, lines 196-203: one of the (at most 10) probe reads
ProbeRead ==
    /\ pc = "probe_read"
    /\ IF probeCount >= ProbeLines
       THEN /\ pc' = "probe_close"
            /\ UNCHANGED << probeCount, detected, probeLine >>
       ELSE \/ \E raw \in ProbeFeed :
                  /\ probeLine' = Strip(raw)
                  /\ probeCount' = probeCount + 1
                  /\ detected' = HasToken(probeLine')
                  /\ pc' = IF detected' THEN "probe_close" ELSE "probe_read"
            \/ /\ probeCount' = probeCount + 1     \* readline raises: continue
               /\ pc' = "probe_read"
               /\ UNCHANGED << detected, probeLine >>
    /\ UNCHANGED << ports, portIdx, port, probeOpen >>
    /\ UNCHANGED << unitVars, cfgVars, envVars, running, exitStatus, devVars, fileVars,
                    outVars, schemaVars, lineVars, dataVars >>

\* wait_for_trisonica, lines 205-211; its locals end with the return
ProbeClose ==
    /\ pc = "probe_close"
    /\ probeOpen' = FALSE
    /\ probeLine' = << >>
    /\ IF detected
       THEN /\ port' = ports[portIdx]
            /\ pc' = "connect"
            /\ ports' = << >>
            /\ portIdx' = 0
            /\ probeCount' = 0
            /\ detected' = FALSE
       ELSE /\ pc' = AfterCandidate
            /\ portIdx' = NextCandidate
            /\ UNCHANGED << port, ports, probeCount, detected >>
    /\ UNCHANGED << unitVars, cfgVars, envVars, running, exitStatus, devVars, fileVars,
                    outVars, schemaVars, lineVars, dataVars >>

\* variant: the last candidate is taken
RunFindPorts_Last ==
    /\ pc = "find_ports"
    /\ \E found \in SortedPorts :
          /\ ports' = found
          /\ IF found = << >>
             THEN pc' = "cl_serial" /\ UNCHANGED port
             ELSE pc' = "connect" /\ port' = found[Len(found)]
    /\ UNCHANGED << portIdx, probeOpen, probeCount, detected, probeLine >>
    /\ UNCHANGED << unitVars, cfgVars, envVars, running, exitStatus, devVars, fileVars,
                    outVars, schemaVars, lineVars, dataVars >>

\* run, lines 460-464: the non-waiting path
RunFindPorts ==
    /\ pc = "find_ports"
    /\ \E found \in SortedPorts :
          /\ ports' = found
          /\ IF found = << >>
             THEN pc' = "cl_serial" /\ UNCHANGED port
             ELSE pc' = "connect" /\ port' = found[1]
    /\ UNCHANGED << portIdx, probeOpen, probeCount, detected, probeLine >>
    /\ UNCHANGED << unitVars, cfgVars, envVars, running, exitStatus, devVars, fileVars,
                    outVars, schemaVars, lineVars, dataVars >>

\* variant: every session after the first starts a new record file
connect_serial_NewFile ==
    /\ pc = "connect"
    /\ serial_open' = TRUE
    /\ linkFailed' = FALSE
    /\ opens' = opens + 1
    /\ pc' = "inner_top"
    /\ port' = 0
    /\ ports' = << >>
    /\ filesCreated' = IF opens > 0 THEN filesCreated + 1 ELSE filesCreated
    /\ log' = IF opens > 0 THEN << >> ELSE log
    /\ csv_headers_written' = IF opens > 0 THEN FALSE ELSE csv_headers_written
    /\ UNCHANGED << log_open, stats_open, statsLog, csv_columns >>
    /\ UNCHANGED << portIdx, probeOpen, probeCount, detected, probeLine >>
    /\ UNCHANGED << unitVars, cfgVars, envVars, running, exitStatus, lineVars, dataVars >>

\* connect_serial (251-259) and run 467-473
connect_serial ==
    /\ pc = "connect"
    /\ \/ /\ serial_open' = TRUE          \* serial.Serial(...) succeeds
          /\ linkFailed' = FALSE
          /\ opens' = opens + 1
          /\ pc' = "inner_top"
          /\ UNCHANGED << faultBudget, faults, exitStatus >>
       \/ /\ pc' = IF wait_for_device THEN "conn_sleep" ELSE "cl_serial"
          /\ UNCHANGED << devVars, faultBudget, faults, exitStatus >>   \* SerialException
       \/ /\ faultBudget > 0               \* any other exception: not caught
          /\ variant = "pi"                \* (TrisonicaLogger catches Exception)
          /\ faultBudget' = faultBudget - 1
          /\ faults' = faults \cup { "connect" }
          /\ pc' = "crashed"
          /\ exitStatus' = 1
          /\ UNCHANGED devVars
    /\ port' = 0                          \* the locals of run() are used no more
    /\ ports' = << >>
    /\ UNCHANGED << portIdx, probeOpen, probeCount, detected, probeLine >>
    /\ UNCHANGED << unitVars, cfgVars, signals, reads, readErrors, running, fileVars,
                    outVars, schemaVars, lineVars, dataVars >>

\* run, lines 470-471
RunConnectSleep ==
    /\ pc = "conn_sleep"
    /\ pc' = "run_top"
    /\ UNCHANGED << unitVars, cfgVars, envVars, running, exitStatus, searchVars, devVars,
                    fileVars, outVars, schemaVars, lineVars, dataVars >>

\* run, line 479: the read loop head
RunInnerHead ==
    /\ pc = "inner_top"
    /\ pc' = IF running /\ serial_open THEN "rsd_check" ELSE "post_close"
    /\ UNCHANGED << unitVars, cfgVars, envVars, running, exitStatus, searchVars, devVars,
                    fileVars, outVars, schemaVars, lineVars, dataVars >>

\* run, lines 510-511
RunCloseSerial ==
    /\ pc = "post_close"
    /\ serial_open' = FALSE
    /\ pc' = "run_top"
    /\ UNCHANGED << linkFailed, opens >>
    /\ UNCHANGED << unitVars, cfgVars, envVars, running, exitStatus, searchVars,
                    fileVars, outVars, schemaVars, lineVars, dataVars >>

-----------------------------------------------------------------------------
(* read_serial_data(): one line through the pipeline *)

\* read_serial_data, lines 330-331
ReadCheck ==
    /\ pc = "rsd_check"
    /\ pc' = IF serial_open THEN "r_read" ELSE "l_sleep"
    /\ UNCHANGED << unitVars, cfgVars, envVars, running, exitStatus, searchVars, devVars,
                    fileVars, outVars, schemaVars, lineVars, dataVars >>

\* read_serial_data, lines 334-336 (371-373 when readline raises)
ReadLine ==
    /\ pc = "r_read"
    /\ \/ /\ linkFailed' \in { TRUE, linkFailed }  \* SerialException, caught at 371:
          /\ readErrors' = IF Len(readErrors) < errorLimit \* the device is gone,
                           THEN Append(readErrors, reads)    \* or the failure is
                           ELSE readErrors                   \* passing
          /\ pc' = "l_sleep"
          /\ UNCHANGED << line, reads >>
       \/ /\ ~linkFailed
          /\ \E raw \in feed \cup { EmptyLine } :
                IF Strip(raw) = << >>
                THEN /\ pc' = "l_sleep"
                     /\ UNCHANGED << line, reads, readErrors, linkFailed >>
                ELSE /\ reads < readLimit
                     /\ line' = Strip(raw)
                     /\ reads' = reads + 1
                     /\ pc' = "r_parse"
                     /\ UNCHANGED << readErrors, linkFailed >>
    /\ UNCHANGED << serial_open, opens, faultBudget, faults, signals >>
    /\ UNCHANGED << timestamp, parsed, keyIdx, value >>
    /\ UNCHANGED << unitVars, cfgVars, running, exitStatus, searchVars, fileVars,
                    outVars, schemaVars, dataVars >>

\* read_serial_data, lines 338-339
ParseLine ==
    /\ pc = "r_parse"
    /\ timestamp' = reads
    /\ parsed' = parse_data_line(line)
    /\ pc' = "r_cols"
    /\ UNCHANGED << line, keyIdx, value >>
    /\ UNCHANGED << unitVars, cfgVars, envVars, running, exitStatus, searchVars, devVars,
                    fileVars, outVars, schemaVars, dataVars >>

\* variant: the header waits for the first non-empty field map
update_csv_columns_WaitForFields ==
    /\ pc = "r_cols"
    /\ csv_columns' = AddColumns(csv_columns, Keys(parsed))
    /\ IF csv_headers_written \/ parsed = << >>
       THEN UNCHANGED << log, csv_headers_written >>
       ELSE /\ log' = Append(log, HeaderEntry(csv_columns'))
            /\ csv_headers_written' = TRUE
    /\ pc' = "r_row"
    /\ UNCHANGED << statsLog, envVars >>
    /\ UNCHANGED << unitVars, cfgVars, running, exitStatus, searchVars, devVars, fileVars,
                    lineVars, dataVars >>

\* update_csv_columns (283-291), called at line 341
update_csv_columns ==
    /\ pc = "r_cols"
    /\ csv_columns' = AddColumns(csv_columns, Keys(parsed))
    /\ IF csv_headers_written
       THEN /\ pc' = "r_row"
            /\ UNCHANGED << log, csv_headers_written, faultBudget, faults >>
       ELSE \/ /\ log' = Append(log, HeaderEntry(csv_columns'))
               /\ csv_headers_written' = TRUE
               /\ pc' = "r_row"
               /\ UNCHANGED << faultBudget, faults >>
            \/ /\ faultBudget > 0          \* the write raises, caught at 371
               /\ faultBudget' = faultBudget - 1
               /\ faults' = faults \cup { "header" }
               /\ pc' = "l_sleep"
               /\ UNCHANGED << log, csv_headers_written >>
    /\ UNCHANGED << statsLog, signals, reads, readErrors >>
    /\ UNCHANGED << unitVars, cfgVars, running, exitStatus, searchVars, devVars, fileVars,
                    lineVars, dataVars >>

\* variant: a line without fields gets no row
write_csv_row_SkipEmpty ==
    /\ pc = "r_row"
    /\ log' = IF parsed = << >> THEN log
              ELSE Append(log, RowEntry(csv_columns, timestamp, parsed))
    /\ pc' = "r_total"
    /\ UNCHANGED << statsLog, envVars >>
    /\ UNCHANGED << unitVars, cfgVars, running, exitStatus, searchVars, devVars, fileVars,
                    schemaVars, lineVars, dataVars >>

\* variant: the row is built but never reaches the file
write_csv_row_Unwritten ==
    /\ pc = "r_row"
    /\ pc' = "r_total"
    /\ UNCHANGED << unitVars, cfgVars, envVars, running, exitStatus, searchVars, devVars,
                    fileVars, outVars, schemaVars, lineVars, dataVars >>

\* variant: the row has a cell only for the columns the line has
write_csv_row_PresentOnly ==
    /\ pc = "r_row"
    /\ LET Present(c) == c = TimestampColumn \/ HasKey(parsed, c)
       IN  log' = Append(log, RowEntry(SelectSeq(csv_columns, Present), timestamp, parsed))
    /\ pc' = "r_total"
    /\ UNCHANGED << statsLog, envVars >>
    /\ UNCHANGED << unitVars, cfgVars, running, exitStatus, searchVars, devVars, fileVars,
                    schemaVars, lineVars, dataVars >>

\* write_csv_row (293-304), called at line 342
write_csv_row ==
    /\ pc = "r_row"
    /\ \/ /\ log' = Append(log, RowEntry(csv_columns, timestamp, parsed))
          /\ pc' = "r_total"
          /\ UNCHANGED << faultBudget, faults >>
       \/ /\ faultBudget > 0               \* write or flush raises, caught at 371
          /\ faultBudget' = faultBudget - 1
          /\ faults' = faults \cup { "row" }
          /\ pc' = "l_sleep"
          /\ UNCHANGED log
    /\ UNCHANGED << statsLog, signals, reads, readErrors >>
    /\ UNCHANGED << unitVars, cfgVars, running, exitStatus, searchVars, devVars, fileVars,
                    schemaVars, lineVars, dataVars >>

\* where the field loop of lines 346-367 goes after the field at index i
AfterField(i) == IF i < Len(parsed) THEN "k_float" ELSE "r_return"

\* read_serial_data, lines 344-346
CountReading ==
    /\ pc = "r_total"
    /\ total_readings' = total_readings + 1
    /\ keyIdx' = 1
    /\ pc' = AfterField(0)
    /\ UNCHANGED << line, timestamp, parsed, value >>
    /\ UNCHANGED << point_count, data_points, error_count, parameter_errors,
                    sensor_health, stats >>
    /\ UNCHANGED << unitVars, cfgVars, envVars, running, exitStatus, searchVars, devVars,
                    fileVars, outVars, schemaVars >>

\* read_serial_data, line 348
ClassifyFloat ==
    /\ pc = "k_float"
    /\ LET f == ToFloat(parsed[keyIdx].v)
       IN  /\ value' = IF f.ok THEN f.val ELSE value
           /\ pc' = IF f.ok THEN "k_init" ELSE "k_valerr"
    /\ UNCHANGED << line, timestamp, parsed, keyIdx >>
    /\ UNCHANGED << unitVars, cfgVars, envVars, running, exitStatus, searchVars, devVars,
                    fileVars, outVars, schemaVars, dataVars >>

\* variant: a value that is no number is skipped silently
ClassifyValueError_Pass ==
    /\ pc = "k_valerr"
    /\ keyIdx' = keyIdx + 1
    /\ pc' = AfterField(keyIdx)
    /\ UNCHANGED << line, timestamp, parsed, value >>
    /\ UNCHANGED << unitVars, cfgVars, envVars, running, exitStatus, searchVars, devVars,
                    fileVars, outVars, schemaVars, dataVars >>

\* read_serial_data, lines 366-367: update_sensor_health(key, 0, True)
ClassifyValueError ==
    /\ pc = "k_valerr"
    /\ IF variant = "pi"
       THEN /\ error_count' = error_count + 1
            /\ sensor_health' = update_sensor_health(sensor_health, parsed[keyIdx].k, 0, TRUE,
                                                     error_count', total_readings, timestamp)
       ELSE UNCHANGED << error_count, sensor_health >>    \* TrisonicaLogger: pass
    /\ keyIdx' = keyIdx + 1
    /\ pc' = AfterField(keyIdx)
    /\ UNCHANGED << line, timestamp, parsed, value >>
    /\ UNCHANGED << point_count, data_points, total_readings, parameter_errors, stats >>
    /\ UNCHANGED << unitVars, cfgVars, envVars, running, exitStatus, searchVars, devVars,
                    fileVars, outVars, schemaVars >>

\* read_serial_data, lines 350-354
ClassifyInit ==
    /\ pc = "k_init"
    /\ LET key == parsed[keyIdx].k
       IN  parameter_errors' =
               IF key \in DOMAIN parameter_errors THEN parameter_errors
               ELSE [k \in DOMAIN parameter_errors \cup {key} |->
                        IF k = key THEN [error_count |-> 0, total_count |-> 0]
                        ELSE parameter_errors[k]]
    /\ pc' = "k_total"
    /\ UNCHANGED << point_count, data_points, total_readings, error_count,
                    sensor_health, stats >>
    /\ UNCHANGED << unitVars, cfgVars, envVars, running, exitStatus, searchVars, devVars,
                    fileVars, outVars, schemaVars, lineVars >>

\* read_serial_data, line 356
ClassifyTotal ==
    /\ pc = "k_total"
    /\ parameter_errors' =
           [parameter_errors EXCEPT ![parsed[keyIdx].k].total_count = @ + 1]
    /\ pc' = "k_health"
    /\ UNCHANGED << point_count, data_points, total_readings, error_count,
                    sensor_health, stats >>
    /\ UNCHANGED << unitVars, cfgVars, envVars, running, exitStatus, searchVars, devVars,
                    fileVars, outVars, schemaVars, lineVars >>

\* variant: only values below the sentinel are errors
IsError_Below(v) == v < SentinelError

\* read_serial_data, line 358
IsError(v) == v <= SentinelError

\* variant: the temperature rule is missing
IsErrorStrict_SentinelOnly(key, v) == IsError(v)

\* TrisonicaLogger.read_serial_data: is_error, negative temperature included
IsErrorStrict(key, v) == IsError(v) \/ (key = << "T" >> /\ v < 0)

\* read_serial_data, lines 358-359, with update_sensor_health (375-402);
\* TrisonicaLogger only decides is_error here
ClassifyHealth ==
    /\ pc = "k_health"
    /\ IF variant = "pi"
       THEN /\ error_count' = IF IsError(value) THEN error_count + 1 ELSE error_count
            /\ sensor_health' = update_sensor_health(sensor_health, parsed[keyIdx].k, value,
                                                     IsError(value), error_count',
                                                     total_readings, timestamp)
            /\ pc' = IF IsError(value) THEN "k_err" ELSE "k_fold"
       ELSE /\ pc' = IF IsErrorStrict(parsed[keyIdx].k, value) THEN "k_err" ELSE "k_fold"
            /\ UNCHANGED << error_count, sensor_health >>
    /\ UNCHANGED << point_count, data_points, total_readings, parameter_errors, stats >>
    /\ UNCHANGED << unitVars, cfgVars, envVars, running, exitStatus, searchVars, devVars,
                    fileVars, outVars, schemaVars, lineVars >>

\* read_serial_data, lines 361-362
ClassifyError ==
    /\ pc = "k_err"
    /\ parameter_errors' =
           [parameter_errors EXCEPT ![parsed[keyIdx].k].error_count = @ + 1]
    /\ error_count' = IF variant = "pi" THEN error_count    \* counted at line 389
                      ELSE error_count + 1                  \* TrisonicaLogger
    /\ keyIdx' = keyIdx + 1
    /\ pc' = AfterField(keyIdx)
    /\ UNCHANGED << line, timestamp, parsed, value >>
    /\ UNCHANGED << point_count, data_points, total_readings, sensor_health, stats >>
    /\ UNCHANGED << unitVars, cfgVars, envVars, running, exitStatus, searchVars, devVars,
                    fileVars, outVars, schemaVars >>

\* read_serial_data, lines 363-364, with calculate_statistics (306-326)
ClassifyFold ==
    /\ pc = "k_fold"
    /\ stats' = IF variant = "pi"
                THEN calculate_statistics(stats, parsed[keyIdx].k, value)
                ELSE calculate_statistics_simple(stats, parsed[keyIdx].k, value)
    /\ keyIdx' = keyIdx + 1
    /\ pc' = AfterField(keyIdx)
    /\ UNCHANGED << line, timestamp, parsed, value >>
    /\ UNCHANGED << point_count, data_points, total_readings, error_count,
                    parameter_errors, sensor_health >>
    /\ UNCHANGED << unitVars, cfgVars, envVars, running, exitStatus, searchVars, devVars,
                    fileVars, outVars, schemaVars >>

\* read_serial_data line 369 and run lines 482-483
RunCount ==
    /\ pc = "r_return"
    /\ point_count' = point_count + 1
    /\ pc' = "l_append"
    /\ UNCHANGED << data_points, total_readings, error_count, parameter_errors,
                    sensor_health, stats >>
    /\ UNCHANGED << unitVars, cfgVars, envVars, running, exitStatus, searchVars, devVars,
                    fileVars, outVars, schemaVars, lineVars >>

\* deque(maxlen=MAX_DATAPOINTS).append
DequeAppend(q, x) == IF Len(q) >= MAX_DATAPOINTS THEN Append(Tail(q), x) ELSE Append(q, x)

\* run, line 484; a DataPoint's parsed_data is parse_data_line(raw_data)
RunAppend ==
    /\ pc = "l_append"
    /\ data_points' = DequeAppend(data_points,
                                  [timestamp |-> timestamp, raw_data |-> line])
    /\ pc' = "l_snap"
    /\ UNCHANGED << point_count, total_readings, error_count, parameter_errors,
                    sensor_health, stats >>
    /\ UNCHANGED << unitVars, cfgVars, envVars, running, exitStatus, searchVars, devVars,
                    fileVars, outVars, schemaVars, lineVars >>

-----------------------------------------------------------------------------
(* Statistics snapshots: the periodic one and the signal handler's *)

\* what one call of save_final_statistics appends to the statistics file,
\* with the moment of the call
SnapshotEntry(trigger) ==
    [trigger |-> trigger,
     during |-> pc,
     at |-> point_count,
     total |-> total_readings,
     statKeys |-> DOMAIN stats,
     errKeys |-> DOMAIN parameter_errors,
     rows |-> IF variant = "pi" THEN save_final_statistics(stats, parameter_errors)
              ELSE save_final_statistics_simple(stats, parameter_errors)]

\* run, line 487
PeriodicDue(n) == n % SnapshotEvery = 0

\* variant: the periodic snapshot starts the error counts afresh
RunPeriodic_ResetsErrors ==
    /\ pc = "l_snap"
    /\ IF PeriodicDue(point_count) /\ save_statistics /\ stats_open
       THEN /\ statsLog' = Append(statsLog, SnapshotEntry("periodic"))
            /\ parameter_errors' = [k \in DOMAIN parameter_errors |->
                                       [error_count |-> 0, total_count |-> 0]]
       ELSE UNCHANGED << statsLog, parameter_errors >>
    /\ pc' = "l_sleep"
    /\ UNCHANGED << point_count, data_points, total_readings, error_count,
                    sensor_health, stats >>
    /\ UNCHANGED << log, envVars >>
    /\ UNCHANGED << unitVars, cfgVars, running, exitStatus, searchVars, devVars, fileVars,
                    schemaVars, lineVars >>

\* run, lines 487-493
RunPeriodic ==
    /\ pc = "l_snap"
    /\ IF PeriodicDue(point_count) /\ save_statistics
       THEN \/ /\ stats_open
               /\ statsLog' = Append(statsLog, SnapshotEntry("periodic"))
               /\ pc' = "l_sleep"
               /\ UNCHANGED << faultBudget, faults >>
            \/ /\ stats_open /\ faultBudget > 0     \* the write raises: 505-507
               /\ faultBudget' = faultBudget - 1
               /\ faults' = faults \cup { "periodic" }
               /\ pc' = "post_close"
               /\ UNCHANGED statsLog
            \/ /\ ~stats_open                       \* closed file: ValueError
               /\ pc' = "post_close"
               /\ UNCHANGED << statsLog, faultBudget, faults >>
       ELSE /\ pc' = "l_sleep"
            /\ UNCHANGED << statsLog, faultBudget, faults >>
    /\ UNCHANGED << log, signals, reads, readErrors >>
    /\ UNCHANGED << unitVars, cfgVars, running, exitStatus, searchVars, devVars, fileVars,
                    schemaVars, lineVars, dataVars >>

\* run, line 495
RunSleep ==
    /\ pc = "l_sleep"
    /\ pc' = "inner_top"
    /\ UNCHANGED << unitVars, cfgVars, envVars, running, exitStatus, searchVars, devVars,
                    fileVars, outVars, schemaVars, lineVars, dataVars >>

\* Where an exception raised by the signal handler surfaces, by the position of
\* the main flow: not caught at all (traceback, exit status 1) ...
Uncaught == { "start", "run_top", "wft_top", "wft_sleep", "find_ports", "connect",
              "conn_sleep", "inner_top", "post_close",
              "cl_serial", "cl_log", "cl_stats", "cl_summary" }
\* ... caught by read_serial_data at 371 (returns None) ...
InReadTry == { "r_read", "r_parse", "r_cols", "r_row", "r_total", "k_float",
               "k_valerr", "k_init", "k_total", "k_health", "k_err", "k_fold",
               "r_return" }
\* ... caught by run at 505 (break) ...
InRunTry == { "rsd_check", "l_append", "l_snap", "l_sleep" }
\* ... or caught inside wait_for_trisonica at 202 (continue) or 213 (next candidate)
InProbeTry == { "probe_open", "probe_read", "probe_close" }

HandlerRaises ==
    /\ pc' = IF pc \in Uncaught THEN "crashed"
             ELSE IF pc \in InReadTry THEN "l_sleep"
             ELSE IF pc \in InRunTry THEN "post_close"
             ELSE IF pc = "probe_read" /\ probeCount < ProbeLines THEN "probe_read"
             ELSE AfterCandidate
    /\ exitStatus' = IF pc \in Uncaught THEN 1 ELSE exitStatus
    /\ probeCount' = IF pc = "probe_read" /\ probeCount < ProbeLines
                     THEN probeCount + 1 ELSE probeCount
    /\ portIdx' = IF pc \in InProbeTry /\ ~(pc = "probe_read" /\ probeCount < ProbeLines)
                  THEN NextCandidate ELSE portIdx
    /\ UNCHANGED << running, statsLog, ports, port, probeOpen, detected, probeLine >>

\* signal_handler (245-249): save_final_statistics(), then running = False
signal_handler ==
    /\ pc \notin { "done", "crashed" }
    /\ signals < signalLimit
    /\ signals' = signals + 1
    /\ \/ /\ ~save_statistics                        \* 406-407: nothing to write
          /\ running' = FALSE
          /\ UNCHANGED << statsLog, faultBudget, faults, pc, exitStatus, searchVars >>
       \/ /\ save_statistics /\ stats_open
          /\ statsLog' = Append(statsLog, SnapshotEntry("signal"))
          /\ running' = FALSE
          /\ UNCHANGED << faultBudget, faults, pc, exitStatus, searchVars >>
       \/ /\ save_statistics /\ stats_open /\ faultBudget > 0   \* the write raises
          /\ faultBudget' = faultBudget - 1
          /\ faults' = faults \cup { "signal" }
          /\ HandlerRaises
       \/ /\ save_statistics /\ ~stats_open          \* closed file: ValueError
          /\ UNCHANGED << faultBudget, faults >>
          /\ HandlerRaises
    /\ UNCHANGED << log, reads, readErrors >>
    /\ UNCHANGED << unitVars, cfgVars, devVars, fileVars, schemaVars, lineVars, dataVars >>

-----------------------------------------------------------------------------
(* cleanup() *)

\* cleanup, lines 518-520
CleanupSerial ==
    /\ pc = "cl_serial"
    /\ serial_open' = FALSE
    /\ pc' = "cl_log"
    /\ UNCHANGED << linkFailed, opens >>
    /\ UNCHANGED << unitVars, cfgVars, envVars, running, exitStatus, searchVars,
                    fileVars, outVars, schemaVars, lineVars, dataVars >>

\* cleanup, lines 522-524
CleanupLog ==
    /\ pc = "cl_log"
    /\ log_open' = FALSE
    /\ pc' = "cl_stats"
    /\ UNCHANGED << stats_open, filesCreated >>
    /\ UNCHANGED << unitVars, cfgVars, envVars, running, exitStatus, searchVars, devVars,
                    outVars, schemaVars, lineVars, dataVars >>

\* cleanup, lines 526-528
CleanupStats ==
    /\ pc = "cl_stats"
    /\ stats_open' = FALSE
    /\ pc' = "cl_summary"
    /\ UNCHANGED << log_open, filesCreated >>
    /\ UNCHANGED << unitVars, cfgVars, envVars, running, exitStatus, searchVars, devVars,
                    outVars, schemaVars, lineVars, dataVars >>

\* cleanup 530-537, run 514 (return True) and main 558 (sys.exit(0))
CleanupSummary ==
    /\ pc = "cl_summary"
    /\ pc' = "done"
    /\ exitStatus' = 0
    /\ UNCHANGED << unitVars, cfgVars, envVars, running, searchVars, devVars,
                    fileVars, outVars, schemaVars, lineVars, dataVars >>

-----------------------------------------------------------------------------
(* Unit run of calculate_statistics: one parameter of a fresh logger is given a
   sequence of values, the first FreeUpdates of them free, the others equal *)

StatValues == { 0, 1, 2, 5 }
SteadyValues == { 1, 3 }

InitStats ==
    /\ InitAt("unit", "pi", { }, 0, 0, 0, 0)
    /\ fed = << >>
    /\ steady \in SteadyValues
    /\ pieces = << >>

\* self.calculate_statistics(key, value), as called at line 364
UpdateStatistics ==
    /\ pc = "unit"
    /\ Len(fed) < MaxUpdates
    /\ \E v \in IF Len(fed) < FreeUpdates THEN StatValues ELSE { steady } :
          /\ stats' = calculate_statistics(stats, << "S" >>, v)
          /\ fed' = Append(fed, v)
    /\ UNCHANGED << steady, pieces, cfgVars, envVars, running, pc, exitStatus, searchVars,
                    devVars, fileVars, outVars, schemaVars, lineVars >>
    /\ UNCHANGED << point_count, data_points, total_readings, error_count,
                    parameter_errors, sensor_health >>

NextStats == UpdateStatistics

-----------------------------------------------------------------------------
(* Unit run of parse_data_line: a line is put together from up to MaxPieces
   segments, each with the text it contributes and the tokens that text holds,
   and parsed once, joined by commas or by whitespace *)

\* the texts s[1] sep s[2] sep ... as one text
RECURSIVE JoinWith(_, _)
JoinWith(s, sep) ==
    IF s = << >> THEN << >>
    ELSE IF Len(s) = 1 THEN s[1]
    ELSE s[1] \o sep \o JoinWith(Tail(s), sep)

\* a field is "S 1", " S  1 " or "S<tab> 1": key, a gap that holds a space, value;
\* the other segments have no space, or nothing but one
Pieces ==
    LET FieldKeys == { << "S" >>, << "T" >> }
        FieldValues == { << << "1" >> >>, << << "2" >> >>, << << "3" >>, << "4" >> >> }
        FieldStyles == { "plain", "padded", "tabbed" }
        OtherTexts == { << >>, << " " >>, << "x" >>, << "S", "\t", "1" >> }
        FieldText(k, v, style) ==
            CASE style = "plain" -> k \o << " " >> \o v
              [] style = "padded" -> << " " >> \o k \o << " ", " " >> \o v \o << " " >>
              [] style = "tabbed" -> k \o << "\t", " " >> \o v
        OtherTokens(t) ==
            CASE t = << "x" >> -> << << "x" >> >>
              [] t = << "S", "\t", "1" >> -> << << "S" >>, << "1" >> >>
              [] OTHER -> << >>
    IN  { [field |-> TRUE, k |-> k, v |-> JoinWith(vt, << " " >>), style |-> st,
           text |-> FieldText(k, JoinWith(vt, << " " >>), st), tokens |-> << k >> \o vt] :
              k \in FieldKeys, vt \in FieldValues, st \in FieldStyles }
        \cup { [field |-> FALSE, k |-> << >>, v |-> << >>, style |-> "other",
                text |-> t, tokens |-> OtherTokens(t)] : t \in OtherTexts }

\* the line the pieces make when joined by sep
Composed(sep) == JoinWith([i \in 1..Len(pieces) |-> pieces[i].text], << sep >>)

InitParse ==
    /\ InitAt("compose", "pi", { }, 0, 0, 0, 0)
    /\ fed = << >>
    /\ steady = 0
    /\ pieces = << >>

AddPiece ==
    /\ pc = "compose"
    /\ Len(pieces) < MaxPieces
    /\ \E p \in Pieces : pieces' = Append(pieces, p)
    /\ UNCHANGED << fed, steady, cfgVars, envVars, running, pc, exitStatus, searchVars,
                    devVars, fileVars, outVars, schemaVars, lineVars, dataVars >>

\* parsed_data = self.parse_data_line(line), line 339
ParseComposed ==
    /\ pc = "compose"
    /\ pieces # << >>
    /\ \E sep \in { ",", " ", "\t" } :
          /\ line' = Composed(sep)
          /\ parsed' = parse_data_line(line')
    /\ pc' = "parsed"
    /\ UNCHANGED << unitVars, cfgVars, envVars, running, exitStatus, searchVars,
                    devVars, fileVars, outVars, schemaVars, timestamp, keyIdx, value,
                    dataVars >>

NextParse == AddPiece \/ ParseComposed

-----------------------------------------------------------------------------
(* Specifications *)

\* the steps of the main flow, but for the call of parse_data_line
Engine ==
    \/ RunStart
    \/ RunLoopHead
    \/ WaitEnumerate
    \/ WaitSleep
    \/ ProbeOpen
    \/ ProbeRead
    \/ ProbeClose
    \/ RunFindPorts
    \/ connect_serial
    \/ RunConnectSleep
    \/ RunInnerHead
    \/ RunCloseSerial
    \/ ReadCheck
    \/ ReadLine
    \/ update_csv_columns
    \/ write_csv_row
    \/ CountReading
    \/ ClassifyFloat
    \/ ClassifyValueError
    \/ ClassifyInit
    \/ ClassifyTotal
    \/ ClassifyHealth
    \/ ClassifyError
    \/ ClassifyFold
    \/ RunCount
    \/ RunAppend
    \/ RunPeriodic
    \/ RunSleep
    \/ CleanupSerial
    \/ CleanupLog
    \/ CleanupStats
    \/ CleanupSummary

\* the main flow, and the signals delivered to it between two of its steps
Next == Engine \/ ParseLine \/ signal_handler

\* short runs; the output sinks and the serial driver never fail
Spec == Init /\ [][Next]_vars
\* short runs; writes to the sinks and the driver can fail
SpecFaulty == InitFaulty /\ [][Next]_vars
\* long runs of one repeated line; sinks and driver never fail
SpecLong == InitLong /\ [][Next]_vars
SpecSession == InitSession /\ [][Next]_vars
SpecHealth == InitHealth /\ [][Next]_vars
SpecRepeat == InitRepeat /\ [][Next]_vars
SpecSimple == InitSimple /\ [][Next]_vars
\* short runs in which every sleep, read and call of the main flow returns
SpecLive ==
    /\ Init /\ [][Next]_vars
    /\ WF_vars(Engine)
    /\ WF_pc(pc = "r_parse" /\ pc' = "r_cols")      \* ParseLine, by its move
SpecStats == InitStats /\ [][NextStats]_vars
SpecParse == InitParse /\ [][NextParse]_vars

-----------------------------------------------------------------------------
(* Properties *)

IsRow(e) == e.kind = "row"
IsHeader(e) == e.kind = "header"
IsPeriodic(e) == e.trigger = "periodic"
Rows == SelectSeq(log, IsRow)
Headers == SelectSeq(log, IsHeader)
Periodic == SelectSeq(statsLog, IsPeriodic)

IsPrefix(a, b) == Len(a) <= Len(b) /\ SubSeq(b, 1, Len(a)) = a

\* the main flow is between reading a line and the end of its processing
MidLine == { "r_parse", "r_cols", "r_row", "r_total", "k_float", "k_valerr",
             "k_init", "k_total", "k_health", "k_err", "k_fold" }
\* the main flow is searching for, probing or opening a device
Searching == { "wft_top", "wft_sleep", "probe_open", "probe_read", "probe_close",
               "find_ports", "connect", "conn_sleep" }
Stopped == { "done", "crashed" }

\* C1: with wait-for-device enabled, after a line read failed with a link error
\* the engine closes the handle and searches again: it never reads another line
\* from the failed handle.
C1_LinkErrorLeavesConnected ==
    ~(wait_for_device /\ linkFailed /\ serial_open /\ pc = "r_read")

\* C2: with wait-for-device disabled, a link error while connected leads to the
\* handle being closed and the run stopping: once the link has failed the engine is
\* no longer running its read loop.
C2_LinkErrorStopsRun ==
    (~wait_for_device /\ linkFailed /\ pc \in { "inner_top", "rsd_check", "r_read" })
        => ~running

\* C3: a failed write of the header, of a record row or of a periodic snapshot is
\* fatal: afterwards no line is read, no device is searched or opened, and the run
\* does not end with status 0.
C3_WriteFailureIsFatal ==
    (faults \cap { "header", "row", "periodic" } # { })
        => (pc \notin Searching \cup { "r_read" } /\ exitStatus # 0)

\* C4: the statistics flush triggered by a stop signal is never written while a
\* line is still being processed (row, counters, statistics).
C4_SignalFlushAfterLine ==
    \A i \in 1..Len(statsLog) :
        statsLog[i].trigger = "signal" => statsLog[i].during \notin MidLine

\* C5: on every exit path, normal or by exception, the device handle, the record
\* file and the statistics file are closed when the run ends.
C5_AllClosedAtExit ==
    pc \in Stopped => (~serial_open /\ ~log_open /\ ~stats_open)

\* C6: when the run has stopped with statistics persistence enabled, the statistics
\* file ends with a snapshot taken after the last processed record.
C6_FinalSnapshotAtStop ==
    (pc = "done" /\ save_statistics)
        => /\ statsLog # << >>
           /\ statsLog[Len(statsLog)].total = total_readings
           /\ statsLog[Len(statsLog)].rows = save_final_statistics(stats, parameter_errors)

\* C7: the read loop has written one periodic snapshot for each positive multiple
\* of 100 the count of accepted records has reached, written when the count is
\* that multiple, with one row for every parameter of the statistics map or of
\* the per-parameter error map at that moment; with statistics persistence
\* disabled nothing is written.
C7_PeriodicSnapshots ==
    LET settled == IF pc \in { "l_append", "l_snap" } THEN point_count - 1 ELSE point_count
    IN  /\ save_statistics => Len(Periodic) = settled \div SnapshotEvery
        /\ ~save_statistics => statsLog = << >>
        /\ \A i \in 1..Len(Periodic) :
              /\ Periodic[i].at = i * SnapshotEvery
              /\ Periodic[i].during = "l_snap"
              /\ DOMAIN Periodic[i].rows = Periodic[i].statKeys \cup Periodic[i].errKeys

\* two periodic snapshots, the second with a parameter known only by its errors
C7_Witness ==
    /\ Len(Periodic) = 2
    /\ \E k \in DOMAIN Periodic[2].rows : k \notin Periodic[2].statKeys

\* what the lines accepted so far say about parameter k
FieldOf(raw, k) == Get(parse_data_line(raw), k, << >>)
IsNumericField(raw, k) == HasKey(parse_data_line(raw), k) /\ ToFloat(FieldOf(raw, k)).ok
NumericReadings(k) ==
    Cardinality({ i \in 1..Len(data_points) : IsNumericField(data_points[i].raw_data, k) })
ErrorReadings(k) ==
    Cardinality({ i \in 1..Len(data_points) :
                    /\ IsNumericField(data_points[i].raw_data, k)
                    /\ ToFloat(FieldOf(data_points[i].raw_data, k)).val <= SentinelError })
FeedKeys == UNION { KeySet(parse_data_line(l)) : l \in feed }

\* C8: every non-empty line read has exactly one row, in reading order and with
\* its values, and when the next line is read the row, the counters and the
\* statistics of every earlier line are complete; empty lines add nothing.
C8_OneRowPerLine ==
    /\ Len(Rows) = IF pc \in { "r_parse", "r_cols", "r_row" } THEN reads - 1 ELSE reads
    /\ \A i \in 1..Len(Rows) : Rows[i].cells[1] = << i >>
    /\ \A i \in 1..Len(data_points) :
          /\ data_points[i].timestamp = i
          /\ \A j \in 2..Len(Rows[i].cells) :
                Rows[i].cells[j] = FieldOf(data_points[i].raw_data, csv_columns[j])
    /\ pc = "r_read" =>
          /\ total_readings = reads
          /\ point_count = reads
          /\ Len(data_points) = reads
          /\ \A k \in FeedKeys :
                /\ (k \in DOMAIN parameter_errors) = (NumericReadings(k) > 0)
                /\ k \in DOMAIN parameter_errors =>
                      /\ parameter_errors[k].total_count = NumericReadings(k)
                      /\ parameter_errors[k].error_count = ErrorReadings(k)
                /\ (k \in DOMAIN stats) = (NumericReadings(k) > ErrorReadings(k))
                /\ k \in DOMAIN stats =>
                      stats[k].count = NumericReadings(k) - ErrorReadings(k)

\* two different lines were read and processed, and a third read is about to start
C8_Witness ==
    /\ pc = "r_read"
    /\ reads = 2
    /\ Len(Rows) = 2
    /\ data_points[1].raw_data # data_points[2].raw_data

\* the first non-empty line of the run
FirstLine == IF data_points # << >> THEN data_points[1].raw_data ELSE line

\* C9 as stated: the header is written at most once, and only once a non-empty
\* field map has been parsed, so that it names at least one parameter.
C9_HeaderOnFirstFields ==
    /\ Len(Headers) <= 1
    /\ csv_headers_written => Len(Headers[1].cells) > 1

\* C9 as amended: the header is written at most once, as the first entry of the
\* record file and from the columns known at that moment, by the processing of a
\* non-empty line whether or not that line parses to any field; when no write and
\* no handler has failed, that line is the first non-empty line of the run.
C9_HeaderOnFirstLine ==
    /\ Len(Headers) <= 1
    /\ csv_headers_written = (Len(Headers) = 1)
    /\ log # << >> => IsHeader(log[1])
    /\ csv_headers_written =>
          /\ Headers[1].cells[1] = TimestampColumn
          /\ IsPrefix(Headers[1].cells, csv_columns)
    /\ faults = { } =>
          /\ csv_headers_written = (reads >= 1 /\ ~(reads = 1 /\ pc \in { "r_parse", "r_cols" }))
          /\ csv_headers_written =>
                Headers[1].cells = AddColumns(<< TimestampColumn >>, Keys(parse_data_line(FirstLine)))

\* the header was written for a line without fields, and a later line brought fields
C9_Witness ==
    /\ csv_headers_written
    /\ Len(Headers) = 1
    /\ Headers[1].cells = << TimestampColumn >>
    /\ Len(csv_columns) > 1
    /\ Len(Rows) = 2

\* C10: the output files are those created at start-up: none is created later, the
\* record file and the statistics file only grow by appending, across any number
\* of reconnections, and the header is not written a second time.
C10_SameFilesAcrossReconnects ==
    /\ [](filesCreated = IF save_statistics THEN 2 ELSE 1)
    /\ [](Len(Headers) <= 1)
    /\ [][IsPrefix(log, log') /\ IsPrefix(statsLog, statsLog')]_vars

\* a row was written in a second session, after rows of the first one
C10_Witness ==
    /\ opens >= 2
    /\ pc = "r_total"
    /\ Len(Rows) >= 2
    /\ Len(Headers) = 1

\* the session of C11: the line "x" was read, the next read failed, then the line
\* "S 1,T 2" was read and processed
Session ==
    /\ reads = 2
    /\ Len(data_points) = 2
    /\ data_points[1].raw_data = LineMalformed
    /\ data_points[2].raw_data = LineGood
    /\ readErrors = << 1 >>

\* C11 as stated: the session of a malformed line, a failed read and a well-formed
\* line leaves exactly one row in the record file, the row of the well-formed line.
C11_OneRecordPerSession ==
    Session => /\ Len(Rows) = 1
               /\ Rows[1].cells = << << 2 >>, << "1" >>, << "2" >> >>

\* C11 as amended: that session leaves exactly two rows in the record file, after
\* the header `timestamp`: the row of the malformed line, which holds its timestamp
\* only, and the row of the well-formed line; the failed read leaves no row and no
\* count, and the empty field map changes no statistics and no error count.
C11_TwoRecordsPerSession ==
    Session => /\ log = << HeaderEntry(<< TimestampColumn >>),
                           [kind |-> "row", cells |-> << << 1 >> >>],
                           [kind |-> "row", cells |-> << << 2 >>, << "1" >>, << "2" >> >>] >>
               /\ total_readings = 2
               /\ point_count = 2
               /\ error_count = 0
               /\ DOMAIN stats = { << "S" >>, << "T" >> }
               /\ \A k \in DOMAIN stats : stats[k].count = 1
               /\ signals <= 1 => exitStatus # 1   \* nothing was raised out of run()

\* the session is over and the engine is about to read again
C11_Witness == Session /\ pc = "r_read" /\ Len(Rows) = 2 /\ ~linkFailed

-----------------------------------------------------------------------------
(* What the lines processed so far say about each parameter *)

\* the line read last has just been processed to its end (run, line 484)
Settled == pc = "l_snap"

HasField(i, k) == HasKey(parse_data_line(data_points[i].raw_data), k)
IsNumeric(i, k) == IsNumericField(data_points[i].raw_data, k)
Number(i, k) == ToFloat(FieldOf(data_points[i].raw_data, k)).val
IsSentinel(i, k) == IsNumeric(i, k) /\ Number(i, k) <= 0 - 9900
IsPlain(i, k) == IsNumeric(i, k) /\ Number(i, k) > 0 - 9900
IsText(i, k) == HasField(i, k) /\ ~IsNumeric(i, k)

\* the last line that carries parameter k, 0 when none does
LastOf(k) ==
    LET with == { i \in 1..Len(data_points) : HasField(i, k) }
    IN  IF with = { } THEN 0 ELSE CHOOSE i \in with : \A j \in with : j <= i

\* the values of k above the sentinel in the first n lines, in reading order
RECURSIVE PlainValues(_, _)
PlainValues(k, n) ==
    IF n = 0 THEN << >>
    ELSE IF IsPlain(n, k) THEN Append(PlainValues(k, n - 1), Number(n, k))
    ELSE PlainValues(k, n - 1)

Readings == (1..Len(data_points)) \X FeedKeys
SentinelTotal == Cardinality({ r \in Readings : IsSentinel(r[1], r[2]) })
TextTotal == Cardinality({ r \in Readings : IsText(r[1], r[2]) })
TextReadings(k) == Cardinality({ i \in 1..Len(data_points) : IsText(i, k) })

\* C12: a numeric value <= -99.0 sets the parameter's status to Error, counts once
\* in the engine-wide error count and once in the parameter's error_count, and
\* leaves the parameter's statistics as they were: they hold exactly the values
\* above the sentinel; a value above it of a parameter that is neither temperature
\* nor pressure sets the status Good and is folded.
C12_SentinelIsError ==
    Settled =>
        /\ error_count - TextTotal = SentinelTotal
        /\ \A k \in FeedKeys :
              LET n == LastOf(k)
                  good == PlainValues(k, Len(data_points))
              IN  /\ (n > 0 /\ IsSentinel(n, k)) => sensor_health[k].status = "Error"
                  /\ (n > 0 /\ IsPlain(n, k) /\ Head(k) # "T" /\ k # << "P" >>) =>
                         /\ sensor_health[k].status = "Good"
                         /\ stats[k].current_val = Number(n, k)
                  /\ ErrorReadings(k) > 0 =>
                         parameter_errors[k].error_count = ErrorReadings(k)
                  /\ IF good = << >> THEN k \notin DOMAIN stats
                     ELSE /\ stats[k].values = good
                          /\ stats[k].count = Len(good)
                          /\ \A i \in 1..Len(good) :
                                stats[k].min_val <= good[i] /\ good[i] <= stats[k].max_val
                          /\ stats[k].mean_val = [num |-> SumSeq(good), den |-> Len(good)]
                          /\ stats[k].std_dev.over \in { << >>, good }

\* S read 100 and then -99
C12_Witness ==
    /\ Settled
    /\ Len(data_points) = 2
    /\ data_points[1].raw_data = LineHealthy
    /\ data_points[2].raw_data = LineLong
    /\ sensor_health[<< "S" >>].status = "Error"
    /\ stats[<< "S" >>].values = << 10000 >>

\* C13: a value that cannot be converted to a number sets the parameter's status to
\* Error and counts once in the engine-wide error count; no statistics entry is
\* created for it, and an existing entry stays as it was.
C13_NonNumericIsError ==
    Settled =>
        /\ error_count - SentinelTotal = TextTotal
        /\ \A k \in FeedKeys :
              LET n == LastOf(k)
                  good == PlainValues(k, Len(data_points))
              IN  /\ (n > 0 /\ IsText(n, k)) => sensor_health[k].status = "Error"
                  /\ (k \in DOMAIN stats) = (good # << >>)
                  /\ k \in DOMAIN stats =>
                         /\ stats[k].count = Len(good)
                         /\ stats[k].values = good
                         /\ stats[k].current_val = good[Len(good)]

\* P read 5 and then x
C13_Witness ==
    /\ Settled
    /\ Len(data_points) = 2
    /\ data_points[1].raw_data = LineCold
    /\ data_points[2].raw_data = LineLong
    /\ sensor_health[<< "P" >>].status = "Error"
    /\ stats[<< "P" >>].values = << 500 >>
    /\ error_count = 2

\* C14: a value of parameter p that is no number counts in p's per-parameter
\* error_count and total_count.
C14_NonNumericCountedPerParameter ==
    Settled =>
        \A k \in FeedKeys :
            TextReadings(k) > 0 =>
                /\ k \in DOMAIN parameter_errors
                /\ parameter_errors[k].total_count = NumericReadings(k) + TextReadings(k)
                /\ parameter_errors[k].error_count = ErrorReadings(k) + TextReadings(k)

\* C15: when the last reading of P is exactly -99.70, P's status is Offline.
C15_PressureOffline ==
    Settled =>
        LET n == LastOf(<< "P" >>)
        IN  (n > 0 /\ IsNumeric(n, << "P" >>) /\ Number(n, << "P" >>) = 0 - 9970) =>
                sensor_health[<< "P" >>].status = "Offline"

\* C16: after a numeric value above -99.0 the parameter's status is Malfunction
\* when the parameter is temperature-coded and the value exceeds 100000, and Good
\* otherwise, whatever the earlier readings were; the value is folded into the
\* statistics, last_good_reading is the time of that reading, and the error
\* counters count the error readings only.
C16_StatusFromCurrentReading ==
    Settled =>
        /\ error_count = SentinelTotal + TextTotal
        /\ \A k \in FeedKeys :
              LET n == LastOf(k)
              IN  (n > 0 /\ IsPlain(n, k)) =>
                      /\ sensor_health[k].status =
                             IF Head(k) = "T" /\ Number(n, k) > 100000 * 100
                             THEN "Malfunction" ELSE "Good"
                      /\ sensor_health[k].last_good_reading = data_points[n].timestamp
                      /\ stats[k].current_val = Number(n, k)
                      /\ stats[k].values[Len(stats[k].values)] = Number(n, k)
                      /\ stats[k].count = Len(PlainValues(k, Len(data_points)))
                      /\ parameter_errors[k].error_count = ErrorReadings(k)

\* S read -99 and then 100, T read 1 and then 100001
C16_Witness ==
    /\ Settled
    /\ Len(data_points) = 2
    /\ data_points[1].raw_data = LineLong
    /\ data_points[2].raw_data = LineHealthy
    /\ sensor_health[<< "S" >>].status = "Good"
    /\ sensor_health[<< "T" >>].status = "Malfunction"
    /\ stats[<< "T" >>].values = << 100, 10000100 >>

\* the readings of T that are not negative, in the first n lines, in reading order
RECURSIVE WarmValues(_)
WarmValues(n) ==
    IF n = 0 THEN << >>
    ELSE IF IsNumeric(n, << "T" >>) /\ Number(n, << "T" >>) >= 0
         THEN Append(WarmValues(n - 1), Number(n, << "T" >>))
         ELSE WarmValues(n - 1)

ColdReadings ==
    Cardinality({ i \in 1..Len(data_points) :
                    IsNumeric(i, << "T" >>) /\ Number(i, << "T" >>) < 0 })

\* C17: in the stricter logger every negative reading of T counts once in T's
\* error_count and once in the engine-wide error count and is not folded; the
\* readings of T that are not negative are folded and count as no error.
C17_NegativeTemperatureIsError ==
    (variant = "simple" /\ Settled) =>
        LET T == << "T" >>
            warm == WarmValues(Len(data_points))
        IN  /\ T \in DOMAIN parameter_errors => parameter_errors[T].error_count = ColdReadings
            /\ ColdReadings > 0 => T \in DOMAIN parameter_errors
            /\ error_count =
                  ColdReadings
                  + Cardinality({ r \in Readings : r[2] # T /\ IsSentinel(r[1], r[2]) })
            /\ (T \in DOMAIN stats) = (warm # << >>)
            /\ T \in DOMAIN stats =>
                  /\ stats[T].values = warm
                  /\ stats[T].count = Len(warm)
                  /\ stats[T].current_val = warm[Len(warm)]

\* T read -1 and then 100001
C17_Witness ==
    /\ variant = "simple"
    /\ Settled
    /\ Len(data_points) = 2
    /\ data_points[1].raw_data = LineCold
    /\ data_points[2].raw_data = LineHealthy
    /\ parameter_errors[<< "T" >>].error_count = 1
    /\ stats[<< "T" >>].values = << 10000100 >>
    /\ error_count = 2

-----------------------------------------------------------------------------
(* calculate_statistics against the values it was given *)

\* the last n elements of s
LastN(s, n) == IF Len(s) <= n THEN s ELSE SubSeq(s, Len(s) - n + 1, Len(s))

\* sum over the window w of (Len(w) * x - sum(w))^2, which is Len(w)^2 times the
\* sum of the squared deviations from the mean of w
RECURSIVE ScaledDeviations(_, _, _)
ScaledDeviations(w, i, total) ==
    IF i > Len(w) THEN 0
    ELSE (Len(w) * w[i] - total) * (Len(w) * w[i] - total)
         + ScaledDeviations(w, i + 1, total)

\* C18: after the values fed to one parameter, count is their number, the window
\* is the last min(count, 100) of them in order, min and max are the extrema of
\* all of them, mean is the mean of the window and the variance behind std_dev is
\* the sum of squared deviations of the window over its length; after one value
\* min = max = mean = value and std_dev = 0; 1, 2, 3 give 1, 3, 2 and 2/3.
C18_WindowedMeanRunningExtrema ==
    LET S == << "S" >>
        n == Len(fed)
        w == LastN(fed, 100)
        L == Len(w)
    IN  /\ (n = 0) = (stats = << >>)
        /\ n > 0 =>
              LET st == stats[S]
                  var == Variance(st.std_dev)
              IN  /\ st.count = n
                  /\ st.values = w
                  /\ \A i \in 1..n : st.min_val <= fed[i] /\ fed[i] <= st.max_val
                  /\ \E i \in 1..n : st.min_val = fed[i]
                  /\ \E i \in 1..n : st.max_val = fed[i]
                  /\ st.mean_val.num * L = SumSeq(w) * st.mean_val.den
                  /\ IF L = 1 THEN var.num = 0
                     ELSE /\ var.den = L * L
                          /\ var.num * L = ScaledDeviations(w, 1, SumSeq(w))
                  /\ n = 1 => /\ st.min_val = fed[1] /\ st.max_val = fed[1]
                              /\ st.mean_val = [num |-> fed[1], den |-> 1]
                              /\ var.num = 0
                  /\ fed = << 1, 2, 3 >> =>
                        /\ st.min_val = 1 /\ st.max_val = 3
                        /\ st.mean_val.num = 2 * st.mean_val.den
                        /\ 3 * var.num = 2 * var.den

\* 102 values: the first, 0, has left the window of 3s and is still the minimum
C18_Witness ==
    /\ Len(fed) = 102
    /\ fed[1] = 0
    /\ steady = 3
    /\ stats[<< "S" >>].min_val = 0
    /\ \A i \in 1..100 : stats[<< "S" >>].values[i] = 3

-----------------------------------------------------------------------------
(* The column sequence against the lines whose fields were observed *)

\* how many lines have been through update_csv_columns, and the keys of the i-th
Observed == IF pc \in { "r_parse", "r_cols" } THEN reads - 1 ELSE reads
ObservedLine(i) == IF i <= Len(data_points) THEN data_points[i].raw_data ELSE line
ObservedKeys(i) == Keys(parse_data_line(ObservedLine(i)))

\* timestamp first, then the parameter codes observed so far, each once, in order
\* of first appearance
ColumnsAsObserved ==
    LET Has(ks, k) == \E j \in 1..Len(ks) : ks[j] = k
        PlaceIn(ks, k) == CHOOSE j \in 1..Len(ks) : ks[j] = k
        FirstSeen(k) ==
            CHOOSE i \in 1..Observed :
                /\ Has(ObservedKeys(i), k)
                /\ \A h \in 1..(i - 1) : ~Has(ObservedKeys(h), k)
        \* a appeared before b: in an earlier line, or earlier in the same line
        AppearedBefore(a, b) ==
            \/ FirstSeen(a) < FirstSeen(b)
            \/ /\ FirstSeen(a) = FirstSeen(b)
               /\ PlaceIn(ObservedKeys(FirstSeen(a)), a)
                     < PlaceIn(ObservedKeys(FirstSeen(a)), b)
    IN  /\ csv_columns[1] = TimestampColumn
        /\ \A i, j \in 1..Len(csv_columns) : csv_columns[i] = csv_columns[j] => i = j
        /\ { csv_columns[i] : i \in 2..Len(csv_columns) }
              = UNION { { ObservedKeys(i)[j] : j \in 1..Len(ObservedKeys(i)) } :
                        i \in 1..Observed }
        /\ \A i, j \in 2..Len(csv_columns) :
              i < j => AppearedBefore(csv_columns[i], csv_columns[j])
        /\ (Observed = 2 /\ ObservedLine(1) = LineGood /\ ObservedLine(2) = LineMixed)
              => csv_columns = << TimestampColumn, << "S" >>, << "T" >>, << "P" >> >>

\* C19: the column sequence starts with timestamp and holds every parameter code
\* observed so far exactly once, in order of first appearance; every step leaves
\* it alone or appends to it, so an earlier sequence is a prefix of a later one.
C19_ColumnsAppendOnly ==
    /\ []ColumnsAsObserved
    /\ [][IsPrefix(csv_columns, csv_columns')]_vars

\* fields S,P then S,T were observed: P precedes T
C19_Witness ==
    /\ Observed = 2
    /\ ObservedLine(1) = LineMixed
    /\ ObservedLine(2) = LineGood
    /\ csv_columns = << TimestampColumn, << "S" >>, << "P" >>, << "T" >> >>

-----------------------------------------------------------------------------
(* The rows against the columns known when each was written *)

\* the parameter codes of the first n observed lines
KeysUpTo(n) ==
    UNION { { ObservedKeys(i)[j] : j \in 1..Len(ObservedKeys(i)) } : i \in 1..n }

\* C20: the row of a line has one cell per column known once that line's fields
\* were observed: the timestamp first, the line's value under each column it
\* has and an empty cell under each column it lacks; so a row is never narrower
\* than the header, can be wider, and no row is narrower than an earlier one.
C20_RowMatchesColumns ==
    /\ Len(Rows) = IF pc = "r_row" THEN Observed - 1 ELSE Observed
    /\ \A i \in 1..Len(Rows) :
          LET cells == Rows[i].cells
              d == parse_data_line(ObservedLine(i))
          IN  /\ Len(cells) = 1 + Cardinality(KeysUpTo(i))
              /\ cells[1] = << i >>
              /\ \A j \in 2..Len(cells) :
                    cells[j] = IF \E h \in 1..Len(d) : d[h].k = csv_columns[j]
                               THEN (CHOOSE f \in { d[h] : h \in 1..Len(d) } :
                                         f.k = csv_columns[j]).v
                               ELSE << >>
              /\ Headers # << >> => Len(cells) >= Len(Headers[1].cells)
              /\ \A h \in 1..i : Len(Rows[h].cells) <= Len(cells)

\* S,T then S,P: the second row has a cell for P, which the header lacks, and an
\* empty cell under T
C20_Witness ==
    /\ Len(Rows) = 2
    /\ ObservedLine(1) = LineGood
    /\ ObservedLine(2) = LineMixed
    /\ Len(Headers[1].cells) = 3
    /\ Rows[2].cells = << << 2 >>, << "-", "9", "9" >>, << >>, << "x" >> >>

-----------------------------------------------------------------------------
(* parse_data_line against what the line was made of *)

\* C21: from a line with a comma, every segment with a space gives its key and
\* its value, split at the first space; a segment without one is dropped and
\* leaves the others alone; a key that repeats has its last value at the place
\* of its first appearance; whatever the line, the parser returns a map.
C21_CommaSegments ==
    (pc = "parsed" /\ Contains(line, ",")) =>
        LET F == { i \in 1..Len(pieces) : pieces[i].field }
            With(k) == { i \in F : pieces[i].k = k }
            First(k) == CHOOSE i \in With(k) : \A j \in With(k) : i <= j
            Last(k) == CHOOSE i \in With(k) : \A j \in With(k) : j <= i
        IN  /\ KeySet(parsed) = { pieces[i].k : i \in F }
            /\ Len(parsed) = Cardinality(KeySet(parsed))
            /\ \A a \in 1..Len(parsed) : parsed[a].v = pieces[Last(parsed[a].k)].v
            /\ \A a, b \in 1..Len(parsed) :
                  a < b => First(parsed[a].k) < First(parsed[b].k)
            /\ line = << "S", " ", "1", ",", "x", ",", "S", " ", "2" >>
                  => parsed = << [k |-> << "S" >>, v |-> << "2" >>] >>

\* "S 1,T 2, S  3 4 ": S repeats, and its last value holds a space
C21_Witness ==
    /\ pc = "parsed"
    /\ line = << "S", " ", "1", ",", "T", " ", "2", ",",
                 " ", "S", " ", " ", "3", " ", "4", " " >>
    /\ parsed = << [k |-> << "S" >>, v |-> << "3", " ", "4" >>],
                   [k |-> << "T" >>, v |-> << "2" >>] >>

\* the tokens of the line, in order
RECURSIVE PieceTokens(_)
PieceTokens(i) == IF i > Len(pieces) THEN << >> ELSE pieces[i].tokens \o PieceTokens(i + 1)

\* C22: from a line without a comma, the tokens between runs of whitespace are
\* paired by position, 1st with 2nd, 3rd with 4th, and a last token without a
\* partner is dropped; and when the line is made of key/value pairs of tokens,
\* joining the pairs by commas or by spaces gives the same ordered map.
C22_PositionalPairs ==
    (pc = "parsed" /\ ~Contains(line, ",")) =>
        LET toks == PieceTokens(1)
            K == { i \in 1..(Len(toks) - 1) : i % 2 = 1 }
            With(k) == { i \in K : toks[i] = k }
            First(k) == CHOOSE i \in With(k) : \A j \in With(k) : i <= j
            Last(k) == CHOOSE i \in With(k) : \A j \in With(k) : j <= i
        IN  /\ KeySet(parsed) = { toks[i] : i \in K }
            /\ Len(parsed) = Cardinality(KeySet(parsed))
            /\ \A a \in 1..Len(parsed) : parsed[a].v = toks[Last(parsed[a].k) + 1]
            /\ \A a, b \in 1..Len(parsed) :
                  a < b => First(parsed[a].k) < First(parsed[b].k)
            /\ (\A i \in 1..Len(pieces) :
                    pieces[i].style = "plain" /\ Len(pieces[i].tokens) = 2)
                  => /\ line = Composed(" ") => parsed = parse_data_line(Composed(","))
                     /\ Len(parsed) >= 1

\* "S 1 T 2 S 3 4": 4 has no partner; S keeps its place and takes the value 3
C22_Witness ==
    /\ pc = "parsed"
    /\ line = << "S", " ", "1", " ", "T", " ", "2", " ", "S", " ", "3", " ", "4" >>
    /\ parsed = << [k |-> << "S" >>, v |-> << "3" >>], [k |-> << "T" >>, v |-> << "2" >>] >>

-----------------------------------------------------------------------------
(* The non-waiting mode *)

Polling == { "wft_top", "wft_sleep", "probe_open", "probe_read", "probe_close",
             "conn_sleep" }
Stopping == { "cl_serial", "cl_log", "cl_stats", "cl_summary", "done", "crashed" }

\* C23: without wait_for_device the engine is never in the search-and-probe loop
\* and opens no probe handle; the enumeration hands the first of the sorted
\* candidates to connect_serial and reads nothing; with no candidate, or when
\* the connection fails, the next step is cleanup, and cleanup once begun is
\* never left for another search or connection.
C23_NoWaitTakesFirst ==
    [][~wait_for_device =>
         /\ pc' \notin Polling
         /\ ~probeOpen' /\ probeCount' = 0
         /\ (pc = "find_ports" /\ pc' # "find_ports") =>
               /\ reads' = reads
               /\ \A i \in 1..(Len(ports') - 1) : ports'[i] < ports'[i + 1]
               /\ IF ports' = << >> THEN pc' = "cl_serial"
                  ELSE pc' = "connect" /\ port' = ports'[1]
         /\ (pc = "connect" /\ pc' # "connect") =>
               IF serial_open' THEN pc' = "inner_top" /\ reads' = reads
               ELSE pc' \in Stopping
         /\ pc \in Stopping => pc' \in Stopping]_vars

\* two candidates were found and the first is about to be connected, unread
C23_Witness ==
    /\ ~wait_for_device
    /\ pc = "connect"
    /\ Len(ports) = 2
    /\ port = ports[1]
    /\ reads = 0
    /\ opens = 0

-----------------------------------------------------------------------------
(* Stopping on a signal *)

\* C24: once a stop signal has been handled (running is False again after run()
\* set it), the engine reaches its end, whether it was searching with no
\* candidate, probing candidates it never accepts, or reading; until then the
\* search loop enumerates no more and the read loop starts no other line.
C24_SignalStops ==
    /\ (signals > 0 /\ ~running /\ pc # "start") ~> (pc \in { "done", "crashed" })
    /\ [][(~running /\ pc # "start") =>
            /\ pc = "wft_top" => pc' \in { "wft_top", "cl_serial" }
            /\ pc = "run_top" => pc' \in { "run_top", "cl_serial" }
            /\ pc = "inner_top" => pc' \in { "inner_top", "post_close" }
            /\ ~running']_vars

\* stopped by a signal while it was searching: nothing was ever connected
C24_Witness ==
    /\ pc = "done"
    /\ signals = 1
    /\ wait_for_device
    /\ opens = 0
    /\ ~running

-----------------------------------------------------------------------------
(* The error rate kept in the health records *)

\* C25: every classification of a field, numeric or not, erroneous or not, leaves
\* in the health record of that field's parameter the rate
\* error_count / total_readings * 100 of the engine-wide counters as they are
\* right after it, whichever parameters the errors came from.
C25_RateFromEngineCounters ==
    [][(pc \in { "k_health", "k_valerr" } /\ pc' # pc /\ pc' # "crashed") =>
          LET rate == sensor_health'[parsed[keyIdx].k].error_rate
          IN  /\ total_readings' > 0
              /\ rate.num * total_readings' = error_count' * 100 * rate.den]_vars

\* T had a good reading and no error, and its record holds the 100 % that S made
C25_Witness ==
    /\ line = LineLong
    /\ pc = "k_fold"
    /\ parsed[keyIdx].k = << "T" >>
    /\ total_readings = 1
    /\ error_count = 1
    /\ sensor_health[<< "T" >>].status = "Good"
    /\ sensor_health[<< "T" >>].error_rate.num = 100 * sensor_health[<< "T" >>].error_rate.den

-----------------------------------------------------------------------------
(* Probing the candidates *)

\* the line holds one of the two-character codes the probe looks for
Expected(l) ==
    \E i \in 1..(Len(l) - 1) :
        \/ l[i] \in { "S", "D", "T", "U", "V" } /\ l[i + 1] = " "
        \/ variant = "pi" /\ l[i] = "S" /\ l[i + 1] = "2"

\* C26: the candidates of an enumeration are probed in its order, one at a time;
\* at most 10 lines are read from a candidate, and it is accepted exactly when
\* one of them holds an expected code, which ends the reading; the probe handle
\* is closed before the next candidate is opened and before the accepted path
\* is handed on; when the last candidate is rejected the engine sleeps and then
\* enumerates again.
C26_ProbeInOrder ==
    /\ [](/\ probeOpen => pc \in { "probe_read", "probe_close" }
          /\ probeCount <= 10
          /\ pc = "probe_read" => ~detected /\ ~Expected(probeLine)
          /\ pc \in { "probe_open", "probe_read", "probe_close" } =>
                /\ portIdx \in 1..Len(ports)
                /\ \A i \in 1..(Len(ports) - 1) : ports[i] < ports[i + 1])
    /\ [][/\ (pc' = "probe_open" /\ pc # "probe_open") =>
                 IF pc = "wft_top" THEN portIdx' = 1
                 ELSE portIdx' = portIdx + 1 /\ ports' = ports
          /\ (pc = "probe_close" /\ pc' # pc) =>
                 /\ ~probeOpen'
                 /\ IF Expected(probeLine)
                    THEN pc' = "connect" /\ port' = ports[portIdx]
                    ELSE /\ probeCount = 10
                         /\ pc' = IF portIdx < Len(ports) THEN "probe_open"
                                  ELSE "wft_sleep"
          /\ (pc = "wft_sleep" /\ pc' # pc) => pc' = "wft_top"
          /\ (pc = "wft_top" /\ pc' # pc /\ running) =>
                 pc' = IF ports' = << >> THEN "wft_sleep" ELSE "probe_open"]_vars

\* the first of two candidates sent ten lines without a code and was closed; the
\* second is about to be opened
C26_Witness ==
    /\ pc = "probe_open"
    /\ Len(ports) = 2
    /\ portIdx = 2
    /\ probeCount = 10
    /\ ~probeOpen
    /\ ~detected

-----------------------------------------------------------------------------
(* Snapshots read, they do not write *)

\* C27: a step that writes a snapshot changes no statistics, no quality counter,
\* no health record and no column; and two snapshots in a row that were written
\* with the same lines fully processed hold the same rows, rates included.
C27_SnapshotReadsOnly ==
    /\ [](\A i \in 1..(Len(statsLog) - 1) :
            (/\ statsLog[i].total = statsLog[i + 1].total
             /\ statsLog[i].at = statsLog[i].total
             /\ statsLog[i + 1].at = statsLog[i + 1].total)
                => statsLog[i].rows = statsLog[i + 1].rows)
    /\ [][statsLog' # statsLog =>
            /\ Len(statsLog') = Len(statsLog) + 1
            /\ UNCHANGED << stats, parameter_errors, error_count, total_readings,
                            sensor_health, point_count, csv_columns >>]_vars

\* the signal's snapshot and the periodic one after the 100th line, nothing read
\* in between: the same rows, with an error in them
C27_Witness ==
    /\ Len(statsLog) = 2
    /\ statsLog[1].trigger = "signal"
    /\ statsLog[2].trigger = "periodic"
    /\ statsLog[1].at = 100 /\ statsLog[1].total = 100
    /\ statsLog[2].at = 100 /\ statsLog[2].total = 100
    /\ statsLog[1].rows = statsLog[2].rows
    /\ statsLog[2].rows[<< "S" >>].error_count = 100

-----------------------------------------------------------------------------
(* The engine-wide error rate *)

\* C28: the engine-wide error count never exceeds the engine-wide count of
\* readings, so the rate error_count / total_readings * 100 is between 0 and 100,
\* also after a line with several erroneous fields.
C28_RateIsPercentage ==
    /\ 0 <= error_count
    /\ error_count <= total_readings

-----------------------------------------------------------------------------
(* The rows of the statistics file *)

\* read_serial_data is inside its loop over the fields of a line
InFields == { "k_float", "k_valerr", "k_init", "k_total", "k_health", "k_err", "k_fold" }

\* the lines whose fields were all processed when the snapshot e was written
Completed(e) == IF e.during \in InFields THEN e.total - 1 ELSE e.total

\* C29: every row of every snapshot in the statistics file, the signal handler's
\* included, has good count + error count = total readings, and counts no more
\* readings of its parameter than there are fully processed lines.
C29_RowsConsistent ==
    \A i \in 1..Len(statsLog) :
        \A key \in DOMAIN statsLog[i].rows :
            LET row == statsLog[i].rows[key]
            IN  /\ row.count + row.error_count = row.total_readings
                /\ row.total_readings <= Completed(statsLog[i])

\* the same, of the periodic snapshots alone
PeriodicRowsConsistent ==
    \A i \in 1..Len(statsLog) :
        statsLog[i].trigger = "periodic" =>
            \A key \in DOMAIN statsLog[i].rows :
                LET row == statsLog[i].rows[key]
                IN  /\ row.count + row.error_count = row.total_readings
                    /\ row.total_readings <= Completed(statsLog[i])

-----------------------------------------------------------------------------
(* Writes and closed files *)

\* a delivery of the stop signal whose save_final_statistics has rows to write
HandlerWrites ==
    /\ signals' = signals + 1
    /\ save_statistics
    /\ SnapshotParameters(stats, parameter_errors) # { }

\* C30: no step writes to the statistics file or to the record file after cleanup
\* has closed it, a stop signal delivered during or after cleanup included.
C30_NoWriteAfterClose ==
    [][/\ HandlerWrites => stats_open
       /\ statsLog' # statsLog => stats_open
       /\ log' # log => log_open]_vars

-----------------------------------------------------------------------------
(* Device handles *)

\* C31: at most one device handle is open at any time: none is open when a probe
\* handle (192) or the session handle (254) is about to be opened, the session
\* handle is closed during any search, probe or connection, and no device handle
\* is open once the run has stopped.
C31_OneDeviceHandle ==
    /\ ~(probeOpen /\ serial_open)
    /\ pc \in { "probe_open", "connect" } => ~probeOpen
    /\ pc \in Searching => ~serial_open
    /\ pc \in Stopped => (~serial_open /\ ~probeOpen)

\* the same, of the runs that do not end by an exception
OneDeviceHandleUnlessCrashed ==
    /\ ~(probeOpen /\ serial_open)
    /\ pc \in { "probe_open", "connect" } => ~probeOpen
    /\ pc \in Searching => ~serial_open
    /\ pc = "done" => (~serial_open /\ ~probeOpen)

====
